---- MODULE Spec2Model ----
(***************************************************************************)
(* A model of the retrieval-and-assembly pipeline of the RAG system:       *)
(* conversation memory (memory.py), the chunker (ingest.py), the MMR       *)
(* re-ranker and the TF-IDF index (retriever.py), the answer generator     *)
(* (generator.py) and the query pipeline (agent.py).                       *)
(***************************************************************************)
EXTENDS Integers, Sequences, FiniteSets, TLC

(***************************************************************************)
(* Bounds of the model.                                                    *)
(***************************************************************************)
\* ConversationMemory(max_short_term=...), scaled down from the default 10.
max_short_term == 2

\* ConversationMemory(max_long_term=...): larger than max_short_term, as the
\* default 100 is larger than 10.
max_long_term == max_short_term + 1

\* The number of failing writes to storage_path in one behaviour.
MaxSaveFailures == 1

\* The longest text given to chunk_text, in characters.
MaxTextLen == 7

\* The largest chunk_size given to chunk_text.
MaxChunkSize == 2

\* The longest result list given to rerank_mmr.
MaxResults == 3

\* The largest number of chunks held by the index, and the largest top_k.
MaxCorpus == 3

\* The longest answer given to _sanitize_answer, in phrases.
MaxAnswerPhrases == 4

\* The largest number of ordinary words in an answer given to
\* _calculate_confidence: more than the last length tier.
MaxAnswerWords == 101

\* The longest result list given to _calculate_confidence: more than the
\* five results at which the source boost is capped.
MaxSources == 6

\* The longest result list given to _extract_citations.
MaxCited == 3

\* The longest list of chunks a query retrieves.
MaxRetrieved == 2

\* The largest number of chunks the index holds between uploads.
MaxStored == 2

\* The largest number of queries of one conversation history.
MaxQueries == 2

(***************************************************************************)
(* Generic helpers for Python list semantics.                              *)
(***************************************************************************)
Max(a, b) == IF a >= b THEN a ELSE b

Min(a, b) == IF a <= b THEN a ELSE b

\* s[-n:] for n >= 0: the start index -n is clipped to 0, and -0 is 0, so
\* both n = 0 and n >= len(s) give the whole list.
PyTail(s, n) ==
    IF n = 0 \/ n >= Len(s) THEN s ELSE SubSeq(s, Len(s) - n + 1, Len(s))

\* The last min(n, len(s)) elements of s (the empty list for n = 0).
LastN(s, n) ==
    IF n >= Len(s) THEN s ELSE SubSeq(s, Len(s) - n + 1, Len(s))

IsSuffix(s, t) ==
    /\ Len(s) <= Len(t)
    /\ SubSeq(t, Len(t) - Len(s) + 1, Len(t)) = s

(***************************************************************************)
(* Conversation memory: memory.py                                          *)
(***************************************************************************)
Convs == {"c1", "c2"}

\* The (role, content, metadata) triples add_message is called with:
\* process_query stores the user query without metadata and the assistant
\* answer with a metadata dict.
AddInputs ==
    { [role |-> "user", content |-> "query", metadata |-> "None"],
      [role |-> "assistant", content |-> "answer", metadata |-> "conf"] }

\* The outcome of the write in _save_long_term: it succeeds, open() raises
\* (the file is left as it was), or the write raises after open(..., 'w')
\* truncated the file (the file no longer parses).
SaveOutcomes == {"ok", "open_fail", "write_fail"}

EmptyStore == [c \in {} |-> <<>>]

\* The arguments recorded for an operation that takes no message.
NoInput == [role |-> "none", content |-> "none", metadata |-> "None"]

VARIABLES
    short_term,   \* self.short_term: conversation id -> deque of messages
    long_term,    \* self.long_term: conversation id -> list of messages
    storage,      \* the JSON file at storage_path
    last_op,      \* the last memory operation performed
    save_failures \* how many writes to the file have failed so far

mem_vars == <<short_term, long_term, storage, last_op, save_failures>>

VARIABLES
    text,         \* chunk_text's text, a sequence of characters
    chunk_size,   \* chunk_text's chunk_size
    overlap,      \* chunk_text's overlap
    chunks,       \* the list chunk_text returns
    pc            \* "start" before the call, "done" after it

chunk_vars == <<text, chunk_size, overlap, chunks, pc>>

VARIABLES
    retrieved_chunks,    \* rerank_mmr's retrieved_chunks, a list of passages
    lambda_param,        \* rerank_mmr's lambda_param, in halves
    query_scores,        \* cosine similarity of each passage to the query
    chunk_similarities,  \* cosine similarity of each pair of passages
    reranked,            \* the list rerank_mmr returns
    mmr_pc               \* "start" before the call, "done" after it

mmr_vars == <<retrieved_chunks, lambda_param, query_scores,
              chunk_similarities, reranked, mmr_pc>>

VARIABLES
    index_chunks,        \* self.chunks: the texts of the stored chunks
    chunk_vectors,       \* the texts the vectorizer was last fitted on
    is_fitted,           \* self.is_fitted
    search_scores,       \* cosine similarity of the query to each text
    top_k,               \* the top_k of the last search
    retrieved,           \* the list the last search returned
    index_pc             \* "ready", "searched", or "off"

index_vars == <<index_chunks, chunk_vectors, is_fitted, search_scores,
                top_k, retrieved, index_pc>>

VARIABLES
    raw_answer,          \* the answer given to _sanitize_answer
    sanitized,           \* the answer it returns
    san_variant,         \* which generator.py is running
    san_pc               \* "start", "done", or "off"

san_vars == <<raw_answer, sanitized, san_variant, san_pc>>

VARIABLES
    conf_answer,         \* the answer given to _calculate_confidence
    conf_results,        \* len(retrieved_chunks) of that call
    conf_variant,        \* which generator.py is running
    conf_value,          \* the value it returns, in hundredths
    conf_pc              \* "start", "done", or "off"

conf_vars == <<conf_answer, conf_results, conf_variant, conf_value, conf_pc>>

VARIABLES
    cite_results,        \* the result list given to _extract_citations
    citations,           \* the list it returns
    cite_pc              \* "start", "done", or "off"

cite_vars == <<cite_results, citations, cite_pc>>

VARIABLES
    gen_variant,         \* which generator.py the agent imports
    has_model,           \* self.model is set (an API key was configured)
    confidence_threshold,\* self.confidence_threshold, in hundredths
    query_in,            \* what the last query met: search, rerank, LLM
    response,            \* what process_query returned
    query_pc             \* "ready", "answered", or "off"

query_vars == <<gen_variant, has_model, confidence_threshold, query_in,
                response, query_pc>>

VARIABLES
    index_ids,           \* the chunk_id of each stored chunk, by position
    ingest_status,       \* status of the last ingest_and_store, or "off"
    emptied,             \* an ingest that cleared the index failed, and no
                         \* ingest has succeeded since
    lost                 \* how many chunks that ingest cleared

ingest_vars == <<index_ids, ingest_status, emptied, lost>>

VARIABLES
    queries              \* how many queries were processed

conv_vars == <<queries>>

VARIABLES
    request_kind,        \* request -> "upload" or "chat"
    request_pc,          \* request -> the statement its handler is at
    running              \* the request whose coroutine holds the event
                         \* loop, or "none"

server_vars == <<request_kind, request_pc, running>>

\* The variables of ingest_and_store, of a conversation of queries and of
\* the request handlers.
later_vars == <<ingest_vars, conv_vars, server_vars>>

vars == <<mem_vars, chunk_vars, mmr_vars, index_vars, san_vars, conf_vars,
          cite_vars, query_vars, later_vars>>

\* No document is ingested.
IngestIdle ==
    /\ index_ids = <<>>
    /\ ingest_status = "off"
    /\ emptied = FALSE
    /\ lost = 0

\* No conversation of queries is held.
ConvIdle == queries = 0

\* No request is served.
ServerIdle ==
    /\ request_kind = <<>>
    /\ request_pc = <<>>
    /\ running = "none"

LaterIdle == IngestIdle /\ ConvIdle /\ ServerIdle

\* The variables of generator.py and of process_query.
gen_parts == <<san_vars, conf_vars, cite_vars, query_vars>>

\* The index is not in use.
IndexIdle ==
    /\ index_chunks = <<>>
    /\ chunk_vectors = <<>>
    /\ is_fitted = FALSE
    /\ search_scores = <<>>
    /\ top_k = 0
    /\ retrieved = <<>>
    /\ index_pc = "off"

\* _sanitize_answer is not running.
SanIdle ==
    /\ raw_answer = <<>>
    /\ sanitized = <<>>
    /\ san_variant = "none"
    /\ san_pc = "off"

\* _calculate_confidence is not running.
ConfIdle ==
    /\ conf_answer = <<>>
    /\ conf_results = 0
    /\ conf_variant = "none"
    /\ conf_value = 0
    /\ conf_pc = "off"

\* _extract_citations is not running.
CiteIdle ==
    /\ cite_results = <<>>
    /\ citations = <<>>
    /\ cite_pc = "off"

\* No query is processed.
QueryIdle ==
    /\ gen_variant = "none"
    /\ has_model = FALSE
    /\ confidence_threshold = 0
    /\ query_in = <<>>
    /\ response = <<>>
    /\ query_pc = "off"

GenIdle == SanIdle /\ ConfIdle /\ CiteIdle /\ QueryIdle

\* The re-ranker is not running.
MmrIdle ==
    /\ retrieved_chunks = <<>>
    /\ lambda_param = 0
    /\ query_scores = <<>>
    /\ chunk_similarities = <<>>
    /\ reranked = <<>>
    /\ mmr_pc = "off"

\* The chunker is not running.
ChunkIdle ==
    /\ text = <<>>
    /\ chunk_size = 0
    /\ overlap = 0
    /\ chunks = <<>>
    /\ pc = "off"

\* The memory is not in use.
MemIdle ==
    /\ short_term = <<>>
    /\ long_term = <<>>
    /\ storage = [state |-> "missing", data |-> <<>>]
    /\ last_op = [op |-> "init", id |-> "none", save |-> "none",
                  trimmed |-> FALSE, inp |-> NoInput]
    /\ save_failures = 0

\* message = {"role", "content", "timestamp", "metadata": metadata or {}}
MakeMessage(inp) ==
    [role |-> inp.role,
     content |-> inp.content,
     metadata |-> IF inp.metadata = "None" THEN "{}" ELSE inp.metadata]

\* _load_long_term: the parsed file, or {} when the file is missing or does
\* not parse.
load_long_term(file) ==
    IF file.state = "ok" THEN file.data ELSE EmptyStore

\* _save_long_term: json.dump of the whole long_term dict; a failure is
\* caught and only printed.
save_long_term(store, file, outcome) ==
    CASE outcome = "ok" -> [state |-> "ok", data |-> store]
      [] outcome = "open_fail" -> file
      [] outcome = "write_fail" -> [state |-> "corrupt", data |-> EmptyStore]

\* A deque that refuses the new message once full instead of evicting the
\* oldest one.
DequeAppendKeepOldest(d, m) ==
    IF Len(d) >= max_short_term THEN d ELSE Append(d, m)

\* deque(maxlen=max_short_term).append(message)
DequeAppend(d, m) ==
    IF max_short_term = 0 THEN <<>>
    ELSE LastN(Append(d, m), max_short_term)

\* The slice [:max_long_term] in place of [-max_long_term:].
TrimLongTermHead(log) ==
    IF Len(log) > max_long_term THEN SubSeq(log, 1, max_long_term) ELSE log

\* The slice [-max_long_term + 1:], one message short.
TrimLongTermOneFewer(log) ==
    IF Len(log) > max_long_term THEN LastN(log, max_long_term - 1) ELSE log

\* long_term[id].append(message), then long_term[id][-max_long_term:] when
\* the list is longer than max_long_term.
TrimLongTerm(log) ==
    IF Len(log) > max_long_term THEN PyTail(log, max_long_term) ELSE log

Put(f, k, v) == [x \in (DOMAIN f) \cup {k} |-> IF x = k THEN v ELSE f[x]]

Remove(f, k) == [x \in (DOMAIN f) \ {k} |-> f[x]]

\* A failing write is counted, and no more than MaxSaveFailures of them
\* happen.
CountSave(outcome) ==
    IF outcome = "ok" THEN save_failures' = save_failures
    ELSE /\ save_failures < MaxSaveFailures
         /\ save_failures' = save_failures + 1

MemInit ==
    /\ short_term = EmptyStore
    /\ storage = [state |-> "missing", data |-> EmptyStore]
    /\ long_term = load_long_term(storage)
    /\ last_op = [op |-> "init", id |-> "none", save |-> "none",
                  trimmed |-> FALSE, inp |-> NoInput]
    /\ save_failures = 0

\* add_message writing the file before the message is appended to the log.
add_message_save_first(id, inp, outcome) ==
    LET message == MakeMessage(inp)
        window == IF id \in DOMAIN short_term THEN short_term[id] ELSE <<>>
        log == IF id \in DOMAIN long_term THEN long_term[id] ELSE <<>>
    IN  /\ short_term' = Put(short_term, id, DequeAppend(window, message))
        /\ long_term' = Put(long_term, id, TrimLongTerm(Append(log, message)))
        /\ storage' = save_long_term(long_term, storage, outcome)
        /\ last_op' = [op |-> "add", id |-> id, save |-> outcome,
                       trimmed |-> Len(log) + 1 > max_long_term,
                       inp |-> inp]
        /\ CountSave(outcome)

add_message(id, inp, outcome) ==
    LET message == MakeMessage(inp)
        window == IF id \in DOMAIN short_term THEN short_term[id] ELSE <<>>
        log == IF id \in DOMAIN long_term THEN long_term[id] ELSE <<>>
    IN  /\ short_term' = Put(short_term, id, DequeAppend(window, message))
        /\ long_term' = Put(long_term, id, TrimLongTerm(Append(log, message)))
        /\ storage' = save_long_term(long_term', storage, outcome)
        /\ last_op' = [op |-> "add", id |-> id, save |-> outcome,
                       trimmed |-> Len(log) + 1 > max_long_term,
                       inp |-> inp]
        /\ CountSave(outcome)

\* clear_conversation without the del of the short-term entry.
clear_conversation_log_only(id, outcome) ==
    /\ short_term' = short_term
    /\ long_term' = Remove(long_term, id)
    /\ IF id \in DOMAIN long_term
       THEN /\ storage' = save_long_term(long_term', storage, outcome)
            /\ last_op' = [op |-> "clear", id |-> id, save |-> outcome,
                           trimmed |-> FALSE, inp |-> NoInput]
            /\ CountSave(outcome)
       ELSE /\ outcome = "ok"
            /\ storage' = storage
            /\ last_op' = [op |-> "clear", id |-> id, save |-> "none",
                           trimmed |-> FALSE, inp |-> NoInput]
            /\ save_failures' = save_failures

clear_conversation(id, outcome) ==
    /\ short_term' = Remove(short_term, id)
    /\ long_term' = Remove(long_term, id)
    /\ IF id \in DOMAIN long_term
       THEN /\ storage' = save_long_term(long_term', storage, outcome)
            /\ last_op' = [op |-> "clear", id |-> id, save |-> outcome,
                           trimmed |-> FALSE, inp |-> NoInput]
            /\ CountSave(outcome)
       ELSE /\ outcome = "ok"
            /\ storage' = storage
            /\ last_op' = [op |-> "clear", id |-> id, save |-> "none",
                           trimmed |-> FALSE, inp |-> NoInput]
            /\ save_failures' = save_failures

\* A new process: memory = ConversationMemory() runs __init__ again.
Restart ==
    /\ short_term' = EmptyStore
    /\ long_term' = load_long_term(storage)
    /\ storage' = storage
    /\ last_op' = [op |-> "restart", id |-> "none", save |-> "none",
                   trimmed |-> FALSE, inp |-> NoInput]
    /\ save_failures' = save_failures
    /\ UNCHANGED <<chunk_vars, mmr_vars, index_vars, gen_parts>>
    /\ UNCHANGED later_vars

AddMessage ==
    /\ \E id \in Convs, inp \in AddInputs, o \in SaveOutcomes :
          add_message(id, inp, o)
    /\ UNCHANGED <<chunk_vars, mmr_vars, index_vars, gen_parts>>
    /\ UNCHANGED later_vars

ClearConversation ==
    /\ \E id \in Convs, o \in SaveOutcomes : clear_conversation(id, o)
    /\ UNCHANGED <<chunk_vars, mmr_vars, index_vars, gen_parts>>
    /\ UNCHANGED later_vars

MemNext == AddMessage \/ ClearConversation \/ Restart

MemStart == MemInit /\ ChunkIdle /\ MmrIdle /\ IndexIdle /\ GenIdle
    /\ LaterIdle

SpecMemory == MemStart /\ [][MemNext]_vars

\* get_context over given tiers: the window when the id has one, else the
\* tail of the durable log, else [].
get_context_of(st, lt, id, max_messages) ==
    IF id \in DOMAIN st THEN PyTail(st[id], max_messages)
    ELSE IF id \in DOMAIN lt THEN PyTail(lt[id], max_messages)
    ELSE <<>>

get_context(id, max_messages) ==
    get_context_of(short_term, long_term, id, max_messages)

\* get_context(conversation_id, max_messages=10)
SummaryContextMessages == 10

\* messages[-6:]
SummaryLastMessages == 6

\* msg["content"][:200] + "..." if len(msg["content"]) > 200
SummaryMaxChars == 200

\* The number of characters of a message content.
ContentLen(content) == IF content = "answer" THEN 250 ELSE 5

\* One line f"{role}: {content}" of the summary: the label, the content it
\* is cut from, how many of its characters are shown and whether "..."
\* follows them.
SummaryLine(msg) ==
    [role |-> IF msg.role = "user" THEN "User" ELSE "Assistant",
     content |-> msg.content,
     shown |-> Min(ContentLen(msg.content), SummaryMaxChars),
     ellipsis |-> ContentLen(msg.content) > SummaryMaxChars]

\* get_conversation_summary: the lines that "\n".join joins; no line at
\* all is the empty string.
get_conversation_summary_of(st, lt, id) ==
    LET messages == get_context_of(st, lt, id, SummaryContextMessages)
        shown == PyTail(messages, SummaryLastMessages)
    IN  IF messages = <<>> THEN <<>>
        ELSE [i \in 1..Len(shown) |-> SummaryLine(shown[i])]

get_conversation_summary(id) ==
    get_conversation_summary_of(short_term, long_term, id)

(***************************************************************************)
(* Claims about the conversation memory.                                   *)
(***************************************************************************)
WindowOf(id) == IF id \in DOMAIN short_term THEN short_term[id] ELSE <<>>

LogOf(id) == IF id \in DOMAIN long_term THEN long_term[id] ELSE <<>>

\* The step just taken is a memory operation that is not
\* ClearConversation(id): an AddMessage, or a ClearConversation of another id.
StepLeaves(id) ==
    \/ last_op'.op = "add"
    \/ last_op'.op = "clear" /\ last_op'.id # id

\* C2: with max_long_term >= max_short_term, the recent window of every
\* conversation that has one is a suffix of that conversation's durable log.
C2_WindowIsSuffixOfLog ==
    max_long_term >= max_short_term =>
        \A id \in DOMAIN short_term :
            /\ id \in DOMAIN long_term
            /\ IsSuffix(short_term[id], long_term[id])

\* An AddMessage has just trimmed the log of a conversation whose window is
\* full and shorter than the log.
C2_Witness ==
    /\ last_op.op = "add"
    /\ last_op.trimmed
    /\ last_op.id \in DOMAIN short_term
    /\ Len(short_term[last_op.id]) = max_short_term
    /\ Len(long_term[last_op.id]) > Len(short_term[last_op.id])

\* C3: the recent window is built from the tail of the durable log on first
\* touch, so that once a conversation has a window GetContext(id, n) returns
\* the last n of the (at most max_short_term) most recent messages of the
\* durable log, persisted ones included.
C3_WindowRebuiltFromLog ==
    \A id \in DOMAIN short_term : \A n \in 1..max_short_term :
        get_context(id, n) = LastN(LastN(LogOf(id), max_short_term), n)

\* C4: each AddMessage leaves the window with at most max_short_term and the
\* log with at most max_long_term messages, each tier holding the most
\* recent messages appended to it, the new one last, the oldest evicted.
C4_TiersHoldMostRecent ==
    [][last_op'.op = "add" =>
          LET id == last_op'.id
              message == MakeMessage(last_op'.inp)
          IN  /\ id \in DOMAIN short_term'
              /\ id \in DOMAIN long_term'
              /\ Len(short_term'[id]) <= max_short_term
              /\ Len(long_term'[id]) <= max_long_term
              /\ short_term'[id] =
                     LastN(Append(WindowOf(id), message), max_short_term)
              /\ long_term'[id] =
                     LastN(Append(LogOf(id), message), max_long_term)]_vars

\* An AddMessage has just evicted the oldest message of a full log, the
\* window being full as well.
C4_Witness ==
    /\ last_op.op = "add"
    /\ last_op.trimmed
    /\ Len(WindowOf(last_op.id)) = max_short_term
    /\ Len(LogOf(last_op.id)) = max_long_term

\* C5 as stated: no operation other than ClearConversation(id) removes or
\* changes a message of the durable log of id; the log only grows by
\* appending.
C5_LogOnlyGrows ==
    [][\A id \in DOMAIN long_term :
          StepLeaves(id) =>
              /\ id \in DOMAIN long_term'
              /\ Len(long_term[id]) <= Len(long_term'[id])
              /\ SubSeq(long_term'[id], 1, Len(long_term[id]))
                     = long_term[id]]_vars

\* C5 amended: an AddMessage on id appends one message to the log of id
\* and drops the oldest message exactly when the log already held
\* max_long_term, the messages kept being unchanged and in order; an
\* AddMessage or a ClearConversation on another id leaves the log of id as
\* it was.
C5_LogGrowsOrEvictsOldest ==
    [][\A id \in DOMAIN long_term :
          StepLeaves(id) =>
              /\ id \in DOMAIN long_term'
              /\ IF last_op'.op = "add" /\ last_op'.id = id
                 THEN /\ Len(long_term'[id]) >= 1
                      /\ SubSeq(long_term'[id], 1, Len(long_term'[id]) - 1)
                             = LastN(long_term[id], max_long_term - 1)
                 ELSE long_term'[id] = long_term[id]]_vars

\* An AddMessage has just evicted the oldest message of a log.
C5_Witness ==
    /\ last_op.op = "add"
    /\ last_op.trimmed
    /\ Len(LogOf(last_op.id)) = max_long_term

\* What ClearConversation(id) leaves in memory: no tier for id, an empty
\* context and summary, and the tiers of the other conversations as before.
ClearedInMemory(id) ==
    /\ id \notin DOMAIN short_term'
    /\ id \notin DOMAIN long_term'
    /\ \A n \in 0..max_long_term :
          get_context_of(short_term', long_term', id, n) = <<>>
    /\ get_conversation_summary_of(short_term', long_term', id) = <<>>
    /\ \A other \in Convs \ {id} :
          /\ other \in DOMAIN short_term' <=> other \in DOMAIN short_term
          /\ other \in DOMAIN long_term' <=> other \in DOMAIN long_term
          /\ other \in DOMAIN short_term =>
                short_term'[other] = short_term[other]
          /\ other \in DOMAIN long_term =>
                long_term'[other] = long_term[other]

\* C6 as stated: after ClearConversation(id) the id is in neither tier,
\* GetContext and GetConversationSummary are empty, the persisted store has
\* no entry for id and the other conversations are unchanged.
C6_ClearRemovesEverywhere ==
    [][\A id \in Convs :
          (last_op'.op = "clear" /\ last_op'.id = id) =>
              /\ ClearedInMemory(id)
              /\ id \notin DOMAIN storage'.data]_vars

\* C6 amended: the same, the persisted store having no entry for id when
\* the conversation was in the durable log and the write did not fail (the
\* file then holds exactly the in-memory durable log).
C6_ClearRemovesWhenSaved ==
    [][\A id \in Convs :
          (last_op'.op = "clear" /\ last_op'.id = id) =>
              /\ ClearedInMemory(id)
              /\ last_op'.save = "ok" =>
                    /\ storage'.state = "ok"
                    /\ storage'.data = long_term'
                    /\ id \notin DOMAIN storage'.data]_vars

\* A ClearConversation has just been written to the file while the other
\* conversation is alive in both tiers and in the file.
C6_Witness ==
    /\ last_op.op = "clear"
    /\ last_op.save = "ok"
    /\ \E other \in Convs \ {last_op.id} :
          /\ other \in DOMAIN short_term
          /\ other \in DOMAIN long_term
          /\ other \in DOMAIN storage.data

\* C7: when AddMessage returns and its write did not fail, the file holds
\* the in-memory durable log of all conversations, the new message last in
\* the log of its conversation and every other conversation as in memory.
C7_SaveWritesWholeStore ==
    [][(last_op'.op = "add" /\ last_op'.save = "ok") =>
          LET id == last_op'.id
          IN  /\ storage'.state = "ok"
              /\ storage'.data = long_term'
              /\ id \in DOMAIN storage'.data
              /\ storage'.data[id][Len(storage'.data[id])]
                     = MakeMessage(last_op'.inp)
              /\ \A other \in DOMAIN long_term \ {id} :
                    /\ other \in DOMAIN storage'.data
                    /\ storage'.data[other] = long_term[other]]_vars

\* An AddMessage on one conversation has just been written while the other
\* conversation has a log, and the file held something else before (a write
\* had failed).
C7_Witness ==
    /\ last_op.op = "add"
    /\ last_op.save = "ok"
    /\ save_failures > 0
    /\ storage.state = "ok"
    /\ \E other \in Convs \ {last_op.id} : other \in DOMAIN storage.data

(***************************************************************************)
(* The chunker: ingest.py                                                  *)
(***************************************************************************)
\* The characters of a text: a letter of a word, a whitespace character, a
\* sentence-ending punctuation mark ([.!?]).
Chars == {"w", " ", "."}

IsSpace(c) == c = " "

IsSentenceEnd(c) == c = "."

\* len(text.split()): the number of maximal runs of non-whitespace.
WordCount(s) ==
    Cardinality({i \in 1..Len(s) :
        /\ ~IsSpace(s[i])
        /\ i = 1 \/ IsSpace(s[i - 1])})

\* estimate_tokens: max(1, int(words / 1.3))
estimate_tokens(s) == Max(1, (WordCount(s) * 10) \div 13)

IsBlank(s) == \A i \in 1..Len(s) : IsSpace(s[i])

\* str.strip(): without the leading and trailing whitespace.
Strip(s) ==
    IF IsBlank(s) THEN <<>>
    ELSE LET first == CHOOSE i \in 1..Len(s) :
                 ~IsSpace(s[i]) /\ \A j \in 1..(i - 1) : IsSpace(s[j])
             last == CHOOSE i \in 1..Len(s) :
                 ~IsSpace(s[i]) /\ \A j \in (i + 1)..Len(s) : IsSpace(s[j])
         IN  SubSeq(s, first, last)

\* The end of the whitespace run that starts at position i of t.
RECURSIVE RunEnd(_, _)
RunEnd(t, i) ==
    IF i < Len(t) /\ IsSpace(t[i + 1]) THEN RunEnd(t, i + 1) ELSE i

\* re.split(r'(?<=[.!?])\s+', text) from position i, the current piece
\* starting at position start: a separator is a whitespace run that
\* directly follows a sentence end.
RECURSIVE SplitFrom(_, _, _)
SplitFrom(t, i, start) ==
    IF i > Len(t) THEN <<SubSeq(t, start, Len(t))>>
    ELSE IF i > 1 /\ IsSentenceEnd(t[i - 1]) /\ IsSpace(t[i])
    THEN <<SubSeq(t, start, i - 1)>>
             \o SplitFrom(t, RunEnd(t, i) + 1, RunEnd(t, i) + 1)
    ELSE SplitFrom(t, i + 1, start)

re_split(t) == SplitFrom(t, 1, 1)

\* int(chunk_size * overlap / 100)
OverlapChars(size, ov) == (size * ov) \div 100

\* current_chunk[-int(chunk_size * overlap / 100):] + " " + sentence
Seed(current_chunk, size, ov, sentence) ==
    PyTail(current_chunk, OverlapChars(size, ov)) \o <<" ">> \o sentence

\* The body of the for loop of chunk_text on one sentence; st holds
\* chunks, current_chunk and current_tokens.
LoopBody(st, sentence, size, ov) ==
    LET sentence_tokens == estimate_tokens(sentence)
    IN  IF st.current_tokens + sentence_tokens > size
           /\ st.current_chunk # <<>>
        THEN LET seeded == Seed(st.current_chunk, size, ov, sentence)
             IN  [chunks |-> Append(st.chunks, Strip(st.current_chunk)),
                  current_chunk |-> seeded,
                  current_tokens |-> estimate_tokens(seeded)]
        ELSE [chunks |-> st.chunks,
              current_chunk |-> st.current_chunk \o <<" ">> \o sentence,
              current_tokens |-> st.current_tokens + sentence_tokens]

RECURSIVE Loop(_, _, _, _, _)
Loop(st, sentences, i, size, ov) ==
    IF i > Len(sentences) THEN st
    ELSE Loop(LoopBody(st, sentences[i], size, ov), sentences, i + 1, size, ov)

\* chunk_text without the final chunk.
chunk_text_no_final(t, size, ov) ==
    Loop([chunks |-> <<>>, current_chunk |-> <<>>, current_tokens |-> 0],
         re_split(t), 1, size, ov).chunks

\* chunk_text(text, chunk_size, overlap)
chunk_text(t, size, ov) ==
    LET st == Loop([chunks |-> <<>>, current_chunk |-> <<>>,
                    current_tokens |-> 0],
                   re_split(t), 1, size, ov)
    IN  IF Strip(st.current_chunk) # <<>>
        THEN Append(st.chunks, Strip(st.current_chunk))
        ELSE st.chunks

Texts == UNION {[1..n -> Chars] : n \in 0..MaxTextLen}

ChunkSizes == 1..MaxChunkSize

\* Values of overlap: none, and two that give a tail of a few characters.
Overlaps == {0, 150, 400}

ChunkInit ==
    /\ text \in Texts
    /\ chunk_size \in ChunkSizes
    /\ overlap \in Overlaps
    /\ chunks = <<>>
    /\ pc = "start"

Split ==
    /\ pc = "start"
    /\ chunks' = chunk_text(text, chunk_size, overlap)
    /\ pc' = "done"
    /\ UNCHANGED <<text, chunk_size, overlap>>
    /\ UNCHANGED <<mem_vars, mmr_vars, index_vars, gen_parts>>
    /\ UNCHANGED later_vars

ChunkNext == Split

ChunkStart == ChunkInit /\ MemIdle /\ MmrIdle /\ IndexIdle /\ GenIdle
    /\ LaterIdle

SpecChunk == ChunkStart /\ [][ChunkNext]_vars

(***************************************************************************)
(* Claims about the chunker.                                               *)
(***************************************************************************)
Sentences == re_split(text)

\* The ways to cut the sentence sequence into consecutive groups: a cut at
\* c separates sentence c from sentence c + 1.
Cuttings == SUBSET (1..(Len(Sentences) - 1))

\* The first sentence of the j-th group of a cutting.
GroupFirst(cuts, j) ==
    LET starts == {1} \cup {c + 1 : c \in cuts}
    IN  CHOOSE x \in starts : Cardinality({y \in starts : y < x}) = j - 1

\* The last sentence of the j-th group of a cutting.
GroupLast(cuts, j) ==
    IF j = Cardinality(cuts) + 1 THEN Len(Sentences)
    ELSE GroupFirst(cuts, j + 1) - 1

\* Sentences a..b joined by single spaces.
RECURSIVE JoinSp(_, _)
JoinSp(a, b) ==
    IF a > b THEN <<>>
    ELSE IF a = b THEN Sentences[a]
    ELSE Sentences[a] \o <<" ">> \o JoinSp(a + 1, b)

\* The sentences of the j-th group, whole, in order, joined by single
\* spaces, without the whitespace around them.
GroupText(cuts, j) == Strip(JoinSp(GroupFirst(cuts, j), GroupLast(cuts, j)))

\* The chunks are the groups of the cutting, one chunk per group: the
\* first chunk is its group, a later chunk ends with its group (what
\* precedes the group is the chunk's overlap prefix).
ChunksAreGroups(cuts) ==
    /\ Len(chunks) = Cardinality(cuts) + 1
    /\ \A j \in 1..Len(chunks) :
          IF j = 1 THEN chunks[j] = GroupText(cuts, j)
          ELSE IsSuffix(GroupText(cuts, j), chunks[j])

\* C8: every chunk has an estimated token count of at most chunk_size,
\* except a chunk whose own content (the overlap prefix aside) is a single
\* sentence that alone exceeds chunk_size.  Stated for the calls whose
\* overlap tail is not empty, which C9 does not cover.
C8_ChunkWithinSize ==
    (pc = "done" /\ ~IsBlank(text)
        /\ OverlapChars(chunk_size, overlap) > 0) =>
        \E cuts \in Cuttings :
            /\ ChunksAreGroups(cuts)
            /\ \A j \in 1..Len(chunks) :
                  \/ estimate_tokens(chunks[j]) <= chunk_size
                  \/ /\ GroupFirst(cuts, j) = GroupLast(cuts, j)
                     /\ estimate_tokens(Sentences[GroupFirst(cuts, j)])
                            > chunk_size

\* C9: with overlap = 0 every chunk is seeded with an empty overlap tail:
\* each chunk is exactly its own group of sentences, a chunk after the first
\* starting with the sentence that closed the previous chunk.
C9_NoOverlapNoSharedText ==
    (pc = "done" /\ overlap = 0 /\ ~IsBlank(text)) =>
        \E cuts \in Cuttings :
            /\ Len(chunks) = Cardinality(cuts) + 1
            /\ \A j \in 1..Len(chunks) : chunks[j] = GroupText(cuts, j)

Passages == {"p1", "p2", "p3"}

PassagePairs == {{p, q} : p, q \in Passages} \ {{p} : p \in Passages}

\* Cosine similarities in halves: 0, 0.5 and 1.
ScoreLevels == {0, 1, 2}

\* lambda_param in halves: 0, 0.5 and 1.
Lambdas == {0, 1, 2}

ResultLists == UNION {[1..n -> Passages] : n \in 0..MaxResults}

\* query_scores[idx]
Relevance(R, scores, idx) == scores[R[idx]]

\* chunk_similarities[idx][sel_idx]: 1 for the same text.
Similarity(R, sims, idx, sel) ==
    IF R[idx] = R[sel] THEN 2 ELSE sims[{R[idx], R[sel]}]

\* The last position of the maximum of f over the positions 1..n.
ArgMaxLast(f, n) ==
    CHOOSE i \in 1..n :
        /\ \A j \in 1..n : f[j] <= f[i]
        /\ \A j \in (i + 1)..n : f[j] < f[i]

\* np.argmax of f over the positions 1..n: the first position of the
\* maximum.
ArgMax(f, n) ==
    CHOOSE i \in 1..n :
        /\ \A j \in 1..n : f[j] <= f[i]
        /\ \A j \in 1..(i - 1) : f[j] < f[i]

\* list.remove(x): without the first occurrence of x.
ListRemove(l, x) ==
    LET at == CHOOSE i \in 1..Len(l) :
                  l[i] = x /\ \A j \in 1..(i - 1) : l[j] # x
    IN  SubSeq(l, 1, at - 1) \o SubSeq(l, at + 1, Len(l))

\* lambda_param * relevance - (1 - lambda_param) * diversity, times 4.
MmrScore(R, lam, scores, sims, selected, idx) ==
    LET relevance == Relevance(R, scores, idx)
        diversity ==
            CHOOSE d \in ScoreLevels :
                /\ \E k \in 1..Len(selected) :
                      d = Similarity(R, sims, idx, selected[k])
                /\ \A k \in 1..Len(selected) :
                      Similarity(R, sims, idx, selected[k]) <= d
    IN  lam * relevance - (2 - lam) * diversity

\* The remaining pool with the first selection left in it.
RemainingAfterFirstKept(n, first_idx) == [i \in 1..n |-> i]

\* remaining_indices = list(range(n)); remaining_indices.remove(first_idx)
RemainingAfterFirst(n, first_idx) ==
    ListRemove([i \in 1..n |-> i], first_idx)

\* The while loop of rerank_mmr: the selection order once the pool is
\* empty.
RECURSIVE SelectAll(_, _, _, _, _, _)
SelectAll(R, lam, scores, sims, selected, remaining) ==
    IF remaining = <<>> THEN selected
    ELSE LET mmr_scores ==
                 [k \in 1..Len(remaining) |->
                     MmrScore(R, lam, scores, sims, selected, remaining[k])]
             best_idx == remaining[ArgMax(mmr_scores, Len(remaining))]
         IN  SelectAll(R, lam, scores, sims, Append(selected, best_idx),
                       ListRemove(remaining, best_idx))

\* rerank_mmr(query, retrieved_chunks, lambda_param)
rerank_mmr(R, lam, scores, sims) ==
    IF Len(R) <= 1 THEN R
    ELSE LET n == Len(R)
             first_idx ==
                 ArgMax([i \in 1..n |-> Relevance(R, scores, i)], n)
             selected_indices ==
                 SelectAll(R, lam, scores, sims, <<first_idx>>,
                           RemainingAfterFirst(n, first_idx))
         IN  [k \in 1..Len(selected_indices) |-> R[selected_indices[k]]]

MmrInit ==
    /\ retrieved_chunks \in ResultLists
    /\ lambda_param \in Lambdas
    /\ query_scores \in [Passages -> ScoreLevels]
    /\ chunk_similarities \in [PassagePairs -> ScoreLevels]
    /\ reranked = <<>>
    /\ mmr_pc = "start"

Rerank ==
    /\ mmr_pc = "start"
    /\ reranked' = rerank_mmr(retrieved_chunks, lambda_param, query_scores,
                              chunk_similarities)
    /\ mmr_pc' = "done"
    /\ UNCHANGED <<retrieved_chunks, lambda_param, query_scores,
                   chunk_similarities>>
    /\ UNCHANGED <<mem_vars, chunk_vars, index_vars, gen_parts>>
    /\ UNCHANGED later_vars

MmrNext == Rerank

MmrStart == MmrInit /\ MemIdle /\ ChunkIdle /\ IndexIdle /\ GenIdle
    /\ LaterIdle

SpecMmr == MmrStart /\ [][MmrNext]_vars

(***************************************************************************)
(* Claims about the re-ranker.                                             *)
(***************************************************************************)
\* How many times passage p occurs in list l.
Occurrences(l, p) == Cardinality({i \in 1..Len(l) : l[i] = p})

\* C1: rerank_mmr returns a permutation of its result list: the same
\* entries with the same multiplicities, none dropped, duplicated or new.
C1_RerankIsPermutation ==
    mmr_pc = "done" =>
        /\ Len(reranked) = Len(retrieved_chunks)
        /\ \A p \in Passages :
              Occurrences(reranked, p) = Occurrences(retrieved_chunks, p)

\* A list of three entries or more with a passage held twice was put in
\* another order.
C1_Witness ==
    /\ mmr_pc = "done"
    /\ Len(retrieved_chunks) >= 3
    /\ \E p \in Passages : Occurrences(retrieved_chunks, p) >= 2
    /\ reranked # retrieved_chunks

(***************************************************************************)
(* The TF-IDF index: retriever.py                                          *)
(***************************************************************************)
\* A chunk text made of stop words only: it gives the vocabulary no term.
StopWordsText == "p0"

\* The texts of the stored chunks; two chunks may hold the same text.
IndexTexts == {StopWordsText, "p1", "p2"}

\* The cosine similarity of a query to each text, in halves; a text without
\* terms has the zero vector.
QueryScores == {s \in [IndexTexts -> ScoreLevels] : s[StopWordsText] = 0}

ChunkBatches == UNION {[1..n -> IndexTexts] : n \in 0..MaxCorpus}

TopKs == 0..MaxCorpus

\* TfidfVectorizer.fit_transform raises ValueError (empty vocabulary) when
\* no text holds a term.
HasVocabulary(texts) == \E i \in 1..Len(texts) : texts[i] # StopWordsText

\* add_chunks that fits the vectors on the new chunks alone.
add_chunks_fit_new_only(new) ==
    IF new = <<>>
    THEN UNCHANGED <<index_chunks, chunk_vectors, is_fitted>>
    ELSE /\ index_chunks' = index_chunks \o new
         /\ IF HasVocabulary(new)
            THEN /\ chunk_vectors' = new
                 /\ is_fitted' = TRUE
            ELSE UNCHANGED <<chunk_vectors, is_fitted>>

\* add_chunks(chunks)
add_chunks(new) ==
    IF new = <<>>
    THEN UNCHANGED <<index_chunks, chunk_vectors, is_fitted>>
    ELSE /\ index_chunks' = index_chunks \o new
         /\ IF HasVocabulary(index_chunks')
            THEN /\ chunk_vectors' = index_chunks'
                 /\ is_fitted' = TRUE
            ELSE UNCHANGED <<chunk_vectors, is_fitted>>

\* clear_collection()
clear_collection ==
    /\ index_chunks' = <<>>
    /\ chunk_vectors' = <<>>
    /\ is_fitted' = FALSE

\* cosine_similarity(query_vector, self.chunk_vectors)[0]
Similarities(scores) ==
    [i \in 1..Len(chunk_vectors) |-> scores[chunk_vectors[i]]]

\* np.argsort(similarities): the indices in ascending order of similarity.
\* The default sort kind is not stable, so equal similarities may come in
\* any order.
ArgSorts(sims) ==
    LET n == Len(sims)
    IN  { p \in [1..n -> 1..n] :
            /\ \A i, j \in 1..n : i # j => p[i] # p[j]
            /\ \A i \in 1..(n - 1) : sims[p[i]] <= sims[p[i + 1]] }

\* s[::-1]
Reverse(s) == [i \in 1..Len(s) |-> s[Len(s) + 1 - i]]

\* The first top_k indices of the ascending order.
TopIndicesAscending(order, k) == SubSeq(order, 1, Min(k, Len(order)))

\* np.argsort(similarities)[::-1][:top_k], for top_k >= 0
TopIndices(order, k) == SubSeq(Reverse(order), 1, Min(k, Len(order)))

\* search(query, top_k), with the order np.argsort gave
search(scores, k, order) ==
    IF ~is_fitted \/ Len(index_chunks) = 0 THEN <<>>
    ELSE LET similarities == Similarities(scores)
             top_indices == TopIndices(order, k)
             kept == SelectSeq(top_indices,
                               LAMBDA idx : similarities[idx] > 0)
         IN  [j \in 1..Len(kept) |->
                 [idx |-> kept[j],
                  text |-> index_chunks[kept[j]],
                  score |-> similarities[kept[j]]]]

IndexInit ==
    /\ index_chunks = <<>>
    /\ chunk_vectors = <<>>
    /\ is_fitted = FALSE
    /\ search_scores = <<>>
    /\ top_k = 0
    /\ retrieved = <<>>
    /\ index_pc = "ready"

AddChunks ==
    /\ index_pc # "off"
    /\ \E new \in ChunkBatches :
          /\ Len(index_chunks) + Len(new) <= MaxCorpus
          /\ add_chunks(new)
    /\ search_scores' = <<>>
    /\ top_k' = 0
    /\ retrieved' = <<>>
    /\ index_pc' = "ready"
    /\ UNCHANGED <<mem_vars, chunk_vars, mmr_vars, gen_parts>>
    /\ UNCHANGED later_vars

ClearCollection ==
    /\ index_pc # "off"
    /\ clear_collection
    /\ search_scores' = <<>>
    /\ top_k' = 0
    /\ retrieved' = <<>>
    /\ index_pc' = "ready"
    /\ UNCHANGED <<mem_vars, chunk_vars, mmr_vars, gen_parts>>
    /\ UNCHANGED later_vars

\* search(query, top_k).  A search reads the index and changes nothing of
\* it, so a search made right after another reaches the states the first
\* one could reach: it is taken from the state the index was left in by
\* add_chunks (of an empty list too) or clear_collection.
Search ==
    /\ index_pc = "ready"
    /\ \E scores \in QueryScores, k \in TopKs :
          \E order \in ArgSorts(Similarities(scores)) :
              /\ search_scores' = scores
              /\ top_k' = k
              /\ retrieved' = search(scores, k, order)
    /\ index_pc' = "searched"
    /\ UNCHANGED <<index_chunks, chunk_vectors, is_fitted>>
    /\ UNCHANGED <<mem_vars, chunk_vars, mmr_vars, gen_parts>>
    /\ UNCHANGED later_vars

IndexNext == AddChunks \/ ClearCollection \/ Search

IndexStart == IndexInit /\ MemIdle /\ ChunkIdle /\ MmrIdle /\ GenIdle
    /\ LaterIdle

SpecIndex == IndexStart /\ [][IndexNext]_vars

(***************************************************************************)
(* Claims about the index.                                                 *)
(***************************************************************************)
\* The positions of the stored chunks the last search returned.
ReturnedIdx == {retrieved[a].idx : a \in 1..Len(retrieved)}

\* The similarity the last search gave the stored chunk at position j.
ScoreOf(j) == search_scores[index_chunks[j]]

\* C11: chunks of equal similarity are returned in insertion order (the
\* chunk added earlier first), and of two chunks of equal similarity on
\* either side of the top_k cut the one added earlier is the one returned.
C11_TiesInInsertionOrder ==
    index_pc = "searched" =>
        /\ \A a, b \in 1..Len(retrieved) :
              (a < b /\ retrieved[a].score = retrieved[b].score)
                  => retrieved[a].idx < retrieved[b].idx
        /\ \A a \in 1..Len(retrieved) :
              \A j \in (1..Len(index_chunks)) \ ReturnedIdx :
                  ScoreOf(j) = retrieved[a].score => retrieved[a].idx < j

\* C12: a search returns at most top_k results, each of a positive score,
\* in non-increasing order of score, and leaves out no chunk of a positive
\* score higher than a returned one; an index that was never fitted or
\* holds no chunk returns the empty list.
C12_SearchReturnsTopK ==
    index_pc = "searched" =>
        /\ Len(retrieved) <= top_k
        /\ \A a \in 1..Len(retrieved) :
              /\ retrieved[a].score > 0
              /\ retrieved[a].score = ScoreOf(retrieved[a].idx)
              /\ retrieved[a].text = index_chunks[retrieved[a].idx]
        /\ \A a, b \in 1..Len(retrieved) :
              a < b => retrieved[a].score >= retrieved[b].score
        /\ \A a \in 1..Len(retrieved) :
              \A j \in (1..Len(index_chunks)) \ ReturnedIdx :
                  ScoreOf(j) <= retrieved[a].score
        /\ (~is_fitted \/ Len(index_chunks) = 0) => retrieved = <<>>

\* A search cut at top_k = 2 returned two chunks of different scores and
\* left out a chunk of a positive score.
C12_Witness ==
    /\ index_pc = "searched"
    /\ top_k = 2
    /\ Len(retrieved) = 2
    /\ retrieved[1].score > retrieved[2].score
    /\ \E j \in (1..Len(index_chunks)) \ ReturnedIdx : ScoreOf(j) > 0

(***************************************************************************)
(* Answer texts: generator.py                                              *)
(*                                                                         *)
(* A text is a sequence of phrases, written in lower case and joined by    *)
(* single spaces.  A phrase is a run of words that the patterns and the    *)
(* substring tests of generator.py match as a whole.                       *)
(***************************************************************************)
\* The two generator.py of the repository: src/rag-system/backend and
\* src/backend.
GeneratorFiles == {"rag_system", "backend"}

\* (trained by|developed by|created by|built by|made by)
MadeBy == {"trained by"}

\* (google|openai|anthropic|meta|microsoft)
Vendors == {"google"}

\* (gemini|gpt-?\d*|claude|llama|palm|bard)
ModelNames == {"gemini"}

\* (ai|artificial intelligence|language model|llm), after "as a" or "as an"
AiWords == {"ai", "language model"}

\* api[_\s]?key, secret[_\s]?key, access[_\s]?token
Credentials == {"api key"}

\* What re.sub leaves in place of a match: nothing in rag-system, the
\* marker in backend.
Removed(variant) == IF variant = "rag_system" THEN "" ELSE "[REDACTED]"

\* A run of ordinary words long enough for the last length tier of
\* _calculate_confidence, as one phrase.
LongPassage == "long passage"

\* len(phrase.split())
PhraseWords(p) ==
    CASE p \in {"", "[REDACTED]"} -> 0
      [] p = LongPassage -> MaxAnswerWords
      [] p \in {"trained by", "i am", "language model", "as a", "api key",
                "cannot find", "please upload", "no relevant", "unable to",
                "rate limit"} -> 2
      [] p = "i'm rag assistant" -> 3
      [] OTHER -> 1

\* len(phrase)
PhraseChars(p) ==
    CASE p = "" -> 0
      [] p = "a" -> 1
      [] p = "ai" -> 2
      [] p = "429" -> 3
      [] p \in {"i am", "as a", "word", "page"} -> 4
      [] p \in {"error", "quota"} -> 5
      [] p \in {"google", "gemini"} -> 6
      [] p = "api key" -> 7
      [] p = "document" -> 8
      [] p = "unable to" -> 9
      [] p \in {"trained by", "[REDACTED]", "rate limit"} -> 10
      [] p \in {"cannot find", "no relevant"} -> 11
      [] p = "please upload" -> 13
      [] p = "language model" -> 14
      [] p = "i'm rag assistant" -> 17
      [] p = LongPassage -> 5 * MaxAnswerWords - 1

\* len(answer.split())
RECURSIVE WordCountOf(_)
WordCountOf(s) ==
    IF s = <<>> THEN 0 ELSE PhraseWords(Head(s)) + WordCountOf(Tail(s))

RECURSIVE SumChars(_)
SumChars(s) ==
    IF s = <<>> THEN 0 ELSE PhraseChars(Head(s)) + SumChars(Tail(s))

\* len(answer): the phrases and the single spaces between them
CharCount(s) == IF s = <<>> THEN 0 ELSE SumChars(s) + Len(s) - 1

\* phrase in answer.lower()
Contains(s, phrases) == \E i \in 1..Len(s) : s[i] \in phrases

\* n ordinary words
Words(n) == [i \in 1..n |-> "word"]

\* r'\b(trained by|...)\s*(google|...)\b' matches at position i
MatchMadeBy(s, i) ==
    /\ i + 1 <= Len(s)
    /\ s[i] \in MadeBy
    /\ s[i + 1] \in Vendors

\* r'\b(gemini|gpt-?\d*|claude|llama|palm|bard)\b' matches at position i
MatchModelName(s, i) == i <= Len(s) /\ s[i] \in ModelNames

\* r'\bi am (a |an )?(large )?language model\b' and the same with i'm:
\* the number of phrases matched at position i, 0 for no match.  "i am"
\* stands for both openings.
MatchIAm(s, i) ==
    IF i + 1 <= Len(s) /\ s[i] = "i am" /\ s[i + 1] = "language model"
    THEN 2
    ELSE IF /\ i + 2 <= Len(s)
            /\ s[i] = "i am"
            /\ s[i + 1] = "a"
            /\ s[i + 2] = "language model"
         THEN 3
         ELSE 0

\* r'\bas an? (ai|artificial intelligence|language model|llm)\b' matches at
\* position i
MatchAsAn(s, i) ==
    /\ i + 1 <= Len(s)
    /\ s[i] = "as a"
    /\ s[i + 1] \in AiWords

\* r'\bapi[_\s]?key\b' and the two patterns after it match at position i
MatchCredential(s, i) == i <= Len(s) /\ s[i] \in Credentials

\* The number of phrases pattern number p matches at position i of s.
MatchLen(p, s, i) ==
    CASE p = 1 -> IF MatchMadeBy(s, i) THEN 2 ELSE 0
      [] p = 2 -> IF MatchModelName(s, i) THEN 1 ELSE 0
      [] p = 3 -> MatchIAm(s, i)
      [] p = 5 -> IF MatchAsAn(s, i) THEN 2 ELSE 0
      [] p = 6 -> IF MatchCredential(s, i) THEN 1 ELSE 0

\* re.sub(pattern, replacement, s, flags=re.IGNORECASE): every match from
\* the left, none overlapping, gives way to the replacement.
RECURSIVE ReSub(_, _, _, _)
ReSub(p, s, i, replacement) ==
    IF i > Len(s) THEN s
    ELSE LET n == MatchLen(p, s, i)
         IN  IF n = 0 THEN ReSub(p, s, i + 1, replacement)
             ELSE ReSub(p,
                        SubSeq(s, 1, i - 1) \o <<replacement>>
                            \o SubSeq(s, i + n, Len(s)),
                        i + 1, replacement)

\* The patterns of the list, in the order they are applied.  Patterns 3 and
\* 4 are one here; 6 stands for the three credential patterns, which only
\* backend has.
SensitivePatterns(variant) ==
    IF variant = "rag_system" THEN <<1, 2, 3, 5>> ELSE <<1, 2, 3, 5, 6>>

\* for pattern in patterns: sanitized = re.sub(pattern, ..., sanitized)
RECURSIVE ApplyPatterns(_, _, _)
ApplyPatterns(patterns, s, replacement) ==
    IF patterns = <<>> THEN s
    ELSE ApplyPatterns(Tail(patterns),
                       ReSub(Head(patterns), s, 1, replacement),
                       replacement)

\* re.sub(r'\s+', ' ', sanitized).strip(), after the marker was replaced by
\* '': what was removed leaves no phrase.
CollapseSpaces(s) ==
    SelectSeq(s, LAMBDA p : p \notin {"", "[REDACTED]"})

\* The answer sanitized to less than this many characters gives way to the
\* canned answer.
SanitizeMinLen == 20

\* "I'm RAG Assistant. Please ask me questions about your uploaded
\* documents."
FallbackRagSystem == <<"i'm rag assistant">> \o Words(7) \o <<"document">>

\* "I'm RAG Assistant, a document analysis tool. I'm here to help you
\* understand your uploaded documents. Please ask me questions about the
\* content you've uploaded."
FallbackBackend ==
    <<"i'm rag assistant", "a", "document">> \o Words(10)
        \o <<"document">> \o Words(9)

\* _sanitize_answer(answer)
sanitize_answer(variant, answer) ==
    LET marked == ApplyPatterns(SensitivePatterns(variant), answer,
                                Removed(variant))
        collapsed == CollapseSpaces(marked)
    IN  IF variant = "rag_system"
        THEN IF CharCount(collapsed) < SanitizeMinLen
             THEN FallbackRagSystem ELSE collapsed
        ELSE IF Contains(marked, {"[REDACTED]"})
             THEN IF CharCount(collapsed) < SanitizeMinLen
                  THEN FallbackBackend ELSE collapsed
             ELSE answer

\* The phrases an answer given to _sanitize_answer is made of.
SensitivePhrases ==
    {"trained by", "google", "gemini", "i am", "a", "language model",
     "as a", "ai", "api key", "word"}

\* generate_answer sanitizes an answer that is not empty.
RawAnswers ==
    UNION {[1..n -> SensitivePhrases] : n \in 1..MaxAnswerPhrases}

SanInit ==
    /\ raw_answer \in RawAnswers
    /\ san_variant \in GeneratorFiles
    /\ sanitized = <<>>
    /\ san_pc = "start"

Sanitize ==
    /\ san_pc = "start"
    /\ sanitized' = sanitize_answer(san_variant, raw_answer)
    /\ san_pc' = "done"
    /\ UNCHANGED <<raw_answer, san_variant>>
    /\ UNCHANGED <<mem_vars, chunk_vars, mmr_vars, index_vars, conf_vars,
                   cite_vars, query_vars>>
    /\ UNCHANGED later_vars

SanNext == Sanitize

SanStart ==
    /\ SanInit
    /\ LaterIdle
    /\ MemIdle /\ ChunkIdle /\ MmrIdle /\ IndexIdle
    /\ ConfIdle /\ CiteIdle /\ QueryIdle

SpecSanitize == SanStart /\ [][SanNext]_vars

(***************************************************************************)
(* Claims about _sanitize_answer.                                          *)
(***************************************************************************)
\* Some pattern of the sensitive list (self-identification, vendors and
\* model names, credential terms) matches somewhere in s.
MatchesSensitive(s) ==
    \E i \in 1..Len(s) : \E p \in {1, 2, 3, 5, 6} : MatchLen(p, s, i) > 0

\* C16: no pattern of the sensitive list matches in the text that
\* _sanitize_answer returns.
C16_SanitizedHasNoMatch ==
    san_pc = "done" => ~MatchesSensitive(sanitized)

(***************************************************************************)
(* _calculate_confidence: generator.py.  Confidence is in hundredths.      *)
(***************************************************************************)
\* low_confidence_phrases: "insufficient information", "no relevant",
\* "cannot find", "not found", "unable to", and in backend also
\* "don't have" and "error".
LowConfidencePhrases(variant) ==
    {"no relevant", "cannot find", "unable to"}
        \cup (IF variant = "backend" THEN {"error"} ELSE {})

\* "page" in answer_lower or "document" in answer_lower
CitationWords == {"page", "document"}

\* 0.15 if word_count > 100 else 0.1 if word_count > 50 else 0.05 if
\* word_count > 20 else 0
LengthBoost(word_count) ==
    IF word_count > 100 THEN 15
    ELSE IF word_count > 50 THEN 10
    ELSE IF word_count > 20 THEN 5
    ELSE 0

\* min(0.1, len(retrieved_chunks) * 0.02)
SourceBoost(n) == Min(10, n * 2)

\* The citation boost of backend; rag-system has none.
CitationBoost(variant, answer) ==
    IF variant = "backend" /\ Contains(answer, CitationWords) THEN 5 ELSE 0

\* The sum returned as it is.
ClampNone(v) == v

\* min(0.95, max(0.3, confidence))
Clamp(v) == Min(95, Max(30, v))

\* _calculate_confidence(query, answer, retrieved_chunks), n the number of
\* retrieved chunks
calculate_confidence(variant, answer, n) ==
    IF Contains(answer, LowConfidencePhrases(variant)) THEN 40
    ELSE LET base == IF n > 0 THEN 70 ELSE 30
             length_boost == LengthBoost(WordCountOf(answer))
             source_boost == SourceBoost(n)
             citation_boost == CitationBoost(variant, answer)
         IN  Clamp(base + length_boost + source_boost + citation_boost)

\* What an answer given to _calculate_confidence opens with.
AnswerOpenings ==
    {<<>>, <<"cannot find">>, <<"error">>, <<"document">>,
     <<"please upload">>}

\* generate_answer scores an answer that is not empty.
ScoredAnswers ==
    {opening \o Words(k) :
        opening \in AnswerOpenings, k \in 0..MaxAnswerWords} \ {<<>>}

ConfInit ==
    /\ conf_answer \in ScoredAnswers
    /\ conf_results \in 0..MaxSources
    /\ conf_variant \in GeneratorFiles
    /\ conf_value = 0
    /\ conf_pc = "start"

Confidence ==
    /\ conf_pc = "start"
    /\ conf_value' =
           calculate_confidence(conf_variant, conf_answer, conf_results)
    /\ conf_pc' = "done"
    /\ UNCHANGED <<conf_answer, conf_results, conf_variant>>
    /\ UNCHANGED <<mem_vars, chunk_vars, mmr_vars, index_vars, san_vars,
                   cite_vars, query_vars>>
    /\ UNCHANGED later_vars

ConfNext == Confidence

ConfStart ==
    /\ ConfInit
    /\ LaterIdle
    /\ MemIdle /\ ChunkIdle /\ MmrIdle /\ IndexIdle
    /\ SanIdle /\ CiteIdle /\ QueryIdle

SpecConfidence == ConfStart /\ [][ConfNext]_vars

(***************************************************************************)
(* Claims about _calculate_confidence.                                     *)
(***************************************************************************)
\* C18: the value _calculate_confidence returns is at least 0.30 and at
\* most 0.95.
C18_ConfidenceWithinBounds ==
    conf_pc = "done" => (30 <= conf_value /\ conf_value <= 95)

\* A long answer that names a document, with five results or more: the sum
\* is above 0.95 and the value returned is 0.95.
C18_Witness ==
    /\ conf_pc = "done"
    /\ conf_variant = "backend"
    /\ WordCountOf(conf_answer) > 100
    /\ Contains(conf_answer, CitationWords)
    /\ conf_results >= 5
    /\ conf_value = 95

\* C19: the confidence is 0.4 for an answer with a low-confidence phrase,
\* and otherwise base + lengthBonus + sourceBonus + keywordBonus clamped to
\* [0.30, 0.95]: base 0.7 with results and 0.3 without, lengthBonus
\* 0.15 / 0.10 / 0.05 / 0 above 100 / 50 / 20 words, sourceBonus
\* min(0.10, 0.02 per result), keywordBonus 0.05 for an answer that
\* mentions "page" or "document".
C19_ConfidenceFormula ==
    conf_pc = "done" =>
        LET words == WordCountOf(conf_answer)
            base == IF conf_results > 0 THEN 70 ELSE 30
            lengthBonus ==
                IF words > 100 THEN 15
                ELSE IF words > 50 THEN 10
                ELSE IF words > 20 THEN 5 ELSE 0
            sourceBonus ==
                IF 2 * conf_results < 10 THEN 2 * conf_results ELSE 10
            keywordBonus ==
                IF \E i \in 1..Len(conf_answer) :
                       conf_answer[i] \in {"page", "document"}
                THEN 5 ELSE 0
            total == base + lengthBonus + sourceBonus + keywordBonus
        IN  conf_value =
                IF Contains(conf_answer, LowConfidencePhrases(conf_variant))
                THEN 40
                ELSE IF total < 30 THEN 30
                     ELSE IF total > 95 THEN 95 ELSE total

(***************************************************************************)
(* _extract_citations: generator.py                                        *)
(***************************************************************************)
Documents == {"d1", "d2"}

Pages == {1, 2}

ChunkIds == {"k1", "k2"}

\* chunk[1]: the metadata of a retrieved chunk
Metadatas ==
    [document_name : Documents, page_number : Pages, chunk_id : ChunkIds]

CitedLists == UNION {[1..n -> Metadatas] : n \in 0..MaxCited}

\* key = (metadata['document_name'], metadata['page_number'])
CitationKey(metadata) ==
    <<metadata.document_name, metadata.page_number>>

\* Citation(document=..., page=..., chunk_id=...)
Citation(metadata) ==
    [document |-> metadata.document_name,
     page |-> metadata.page_number,
     chunk_id |-> metadata.chunk_id]

\* One citation for every retrieved chunk, a repeated pair included.
extract_citations_all(results) ==
    [i \in 1..Len(results) |-> Citation(results[i])]

\* The for loop of _extract_citations from position i on.
RECURSIVE CitationLoop(_, _, _, _)
CitationLoop(results, i, found, seen) ==
    IF i > Len(results) THEN found
    ELSE LET metadata == results[i]
             key == CitationKey(metadata)
         IN  IF key \notin seen
             THEN CitationLoop(results, i + 1,
                               Append(found, Citation(metadata)),
                               seen \cup {key})
             ELSE CitationLoop(results, i + 1, found, seen)

\* _extract_citations(retrieved_chunks)
extract_citations(results) ==
    CitationLoop(results, 1, <<>>, {})

CiteInit ==
    /\ cite_results \in CitedLists
    /\ citations = <<>>
    /\ cite_pc = "start"

ExtractCitations ==
    /\ cite_pc = "start"
    /\ citations' = extract_citations(cite_results)
    /\ cite_pc' = "done"
    /\ UNCHANGED cite_results
    /\ UNCHANGED <<mem_vars, chunk_vars, mmr_vars, index_vars, san_vars,
                   conf_vars, query_vars>>
    /\ UNCHANGED later_vars

CiteNext == ExtractCitations

CiteStart ==
    /\ CiteInit
    /\ LaterIdle
    /\ MemIdle /\ ChunkIdle /\ MmrIdle /\ IndexIdle
    /\ SanIdle /\ ConfIdle /\ QueryIdle

SpecCitations == CiteStart /\ [][CiteNext]_vars

(***************************************************************************)
(* Claims about _extract_citations.                                        *)
(***************************************************************************)
\* The first position in the result list of the (document, page) pair of
\* citation c.
FirstResultOf(c) ==
    CHOOSE i \in 1..Len(cite_results) :
        /\ CitationKey(cite_results[i]) = <<c.document, c.page>>
        /\ \A j \in 1..(i - 1) :
              CitationKey(cite_results[j]) # <<c.document, c.page>>

\* C20: _extract_citations returns one citation for each distinct
\* (document, page) pair of the result list, in the order the pairs first
\* appear, each with the chunk id of the first result of its pair.
C20_OneCitationPerPair ==
    cite_pc = "done" =>
        /\ \A a, b \in 1..Len(citations) :
              a # b => <<citations[a].document, citations[a].page>>
                           # <<citations[b].document, citations[b].page>>
        /\ {<<citations[a].document, citations[a].page>> :
                a \in 1..Len(citations)}
             = {CitationKey(cite_results[i]) : i \in 1..Len(cite_results)}
        /\ \A a, b \in 1..Len(citations) :
              a < b => FirstResultOf(citations[a])
                           < FirstResultOf(citations[b])
        /\ \A a \in 1..Len(citations) :
              citations[a].chunk_id
                  = cite_results[FirstResultOf(citations[a])].chunk_id

\* A pair came first and third with different chunk ids, another pair in
\* between: two citations, the first with the chunk id of the first result.
C20_Witness ==
    /\ cite_pc = "done"
    /\ Len(cite_results) = 3
    /\ CitationKey(cite_results[1]) = CitationKey(cite_results[3])
    /\ CitationKey(cite_results[1]) # CitationKey(cite_results[2])
    /\ cite_results[1].chunk_id # cite_results[3].chunk_id
    /\ Len(citations) = 2

(***************************************************************************)
(* generate_answer (generator.py) and process_query (agent.py)             *)
(***************************************************************************)
\* no_citation_phrases: of the phrases both files list, those an answer of
\* the model can hold.
NoCitationPhrases ==
    {"cannot find", "no relevant", "i'm rag assistant", "please upload"}

\* Citations are shown whatever the answer says.
should_show_citations_always(answer) == TRUE

\* _should_show_citations(answer)
should_show_citations(answer) == ~Contains(answer, NoCitationPhrases)

\* "No relevant information found in the documents."
MockNoInfo == <<"no relevant">> \o Words(4) \o <<"document">>

\* "Please upload a document first, then ask questions about its content."
UploadMessage == <<"please upload", "a", "document">> \o Words(7)

\* "Unable to generate answer"
UnableMessage == <<"unable to">> \o Words(2)

\* "Error generating answer: "
ErrorGenerating == <<"error">> \o Words(2)

\* "Error processing query: 'NoneType' object has no attribute 'lower'"
ErrorProcessing == <<"error">> \o Words(9)

\* "Error retrieving documents"
ErrorRetrieving == <<"error", "word", "document">>

\* The user question, of ordinary words.
QueryText == Words(3)

\* The text of a chunk: of 50 characters or less, or longer.
ShortText == Words(3)

LongText == Words(12)

\* A retrieved chunk: (text, metadata, similarity).
RetrievedChunks ==
    [text : {ShortText, LongText},
     metadata : {[document_name |-> "d1", page_number |-> 1,
                  chunk_id |-> "k1"],
                 [document_name |-> "d1", page_number |-> 2,
                  chunk_id |-> "k2"]}]

RetrievedLists == UNION {[1..n -> RetrievedChunks] : n \in 0..MaxRetrieved}

\* What tool_vector_search met: the list search returned, or an exception.
SearchOutcomes ==
    {[status |-> "success", chunks |-> l] : l \in RetrievedLists}
        \cup {[status |-> "error", chunks |-> <<>>]}

\* The orders rerank_mmr can return the list in; tool_rerank_context hands
\* the list back as it was when rerank_mmr raises.
Reorderings(l) ==
    LET n == Len(l)
    IN  { [i \in 1..n |-> l[p[i]]] :
            p \in {q \in [1..n -> 1..n] :
                      \A i, j \in 1..n : i # j => q[i] # q[j]} }

\* The texts the model answers with: a word, a sentence, a sentence asking
\* for an upload, one admitting a miss, a long one naming a document, and
\* two naming the model.
LlmTexts ==
    { <<"word">>,
      Words(6),
      <<"please upload">> \o Words(3),
      <<"cannot find">> \o Words(3),
      <<"document", LongPassage>>,
      <<"gemini", "word">>,
      <<"please upload", "gemini">> \o Words(3) }

\* str(e) of an exception of generate_content.
ErrorMessages ==
    { Words(2),
      <<"gemini">> \o Words(2),
      <<"cannot find", "word">>,
      <<"429">> \o Words(2),
      <<"quota", "word">> }

\* What self.model.generate_content(prompt) did: returned a response with a
\* text (maybe ""), a response that is falsy, a response whose text is
\* None, or raised.
LlmOutcomes ==
    {[kind |-> "text", text |-> t] : t \in LlmTexts \cup {<<>>}}
        \cup {[kind |-> "no_response", text |-> <<>>],
              [kind |-> "text_none", text |-> <<>>]}
        \cup {[kind |-> "error", text |-> m] : m \in ErrorMessages}

\* There is no call when self.model is None or the search failed.
NoLlm == [kind |-> "unused", text |-> <<>>]

\* "429" in str(e) or "quota" in str(e).lower()
IsRateLimit(message) == Contains(message, {"429", "quota"})

\* The texts of the first n chunks that pass the test, joined.
RECURSIVE JoinTexts(_, _, _)
JoinTexts(chunk_list, n, bullet) ==
    IF chunk_list = <<>> \/ n = 0 THEN <<>>
    ELSE (IF bullet
          THEN IF CharCount(Head(chunk_list).text) > 50
               THEN <<"word">> \o Head(chunk_list).text ELSE <<>>
          ELSE Head(chunk_list).text)
             \o JoinTexts(Tail(chunk_list), n - 1, bullet)

\* _mock_generate_answer(query, retrieved_chunks).  rag-system: two
\* headers, a line that names the document, and a bullet for each of the
\* first four chunks longer than 50 characters.  backend: "From the
\* documents: " + the first three chunks + "... This information addresses
\* your question about " + the query.
mock_generate_answer(variant, chunk_list) ==
    IF chunk_list = <<>> THEN MockNoInfo
    ELSE IF variant = "rag_system"
         THEN LET bullets == JoinTexts(chunk_list, 4, TRUE)
              IN  IF bullets = <<>> THEN MockNoInfo
                  ELSE <<"document", "word">> \o Words(4)
                           \o <<"document">> \o Words(5) \o Words(2)
                           \o bullets
         ELSE Words(2) \o <<"document">>
                  \o JoinTexts(chunk_list, 3, FALSE)
                  \o Words(6) \o QueryText

\* The answer after the inner try of generate_answer: none stands for
\* None.
GeneratedAnswer(variant, model, chunk_list, llm) ==
    IF ~model
    THEN [none |-> FALSE,
          text |-> mock_generate_answer(variant, chunk_list)]
    ELSE CASE llm.kind = "text" -> [none |-> FALSE, text |-> llm.text]
           [] llm.kind = "no_response" ->
                  [none |-> FALSE, text |-> UnableMessage]
           [] llm.kind = "text_none" -> [none |-> TRUE, text |-> <<>>]
           [] llm.kind = "error" ->
                  IF IsRateLimit(llm.text)
                  THEN [none |-> FALSE,
                        text |-> mock_generate_answer(variant, chunk_list)]
                  ELSE [none |-> FALSE,
                        text |-> ErrorGenerating \o llm.text]

\* [m.metadata for m in retrieved_chunks]
MetadataOf(chunk_list) ==
    [i \in 1..Len(chunk_list) |-> chunk_list[i].metadata]

\* generate_answer(query, retrieved_chunks, conversation_history)
generate_answer(variant, model, threshold, chunk_list, llm) ==
    LET generated == GeneratedAnswer(variant, model, chunk_list, llm)
        truthy == ~generated.none /\ generated.text # <<>>
        answer == IF truthy THEN sanitize_answer(variant, generated.text)
                  ELSE generated.text
        computed == IF truthy
                    THEN calculate_confidence(variant, answer,
                                              Len(chunk_list))
                    ELSE 0
    IN  IF generated.none
        THEN \* _should_show_citations(None) raises: the outer except
             [answer |-> ErrorProcessing,
              citations |-> <<>>,
              confidence |-> 0,
              retrieved_chunks |-> Len(chunk_list)]
        ELSE LET show == should_show_citations(answer)
                 confidence == IF show THEN computed
                               ELSE Min(computed, 50)
                 final == IF Len(chunk_list) = 0 /\ confidence < threshold
                          THEN UploadMessage ELSE answer
             IN  [answer |-> IF final = <<>> THEN UnableMessage
                             ELSE final,
                  citations |->
                      IF show
                      THEN extract_citations(MetadataOf(chunk_list))
                      ELSE <<>>,
                  confidence |-> confidence,
                  retrieved_chunks |-> Len(chunk_list)]

\* The ChatResponse process_query returns.
process_query(variant, model, threshold, found, reranked_chunks, llm) ==
    IF found.status # "success"
    THEN [answer |-> ErrorRetrieving,
          citations |-> <<>>,
          confidence |-> 0,
          retrieved_chunks |-> 0]
    ELSE generate_answer(variant, model, threshold, reranked_chunks, llm)

\* self.default_conversation_id
default_conversation_id == "default"

\* The memory after add_message(id, ...) on the memory mem.
MessageAdded(mem, id, inp, outcome) ==
    LET message == MakeMessage(inp)
        window == IF id \in DOMAIN mem.short_term
                  THEN mem.short_term[id] ELSE <<>>
        log == IF id \in DOMAIN mem.long_term
               THEN mem.long_term[id] ELSE <<>>
        logs == Put(mem.long_term, id, TrimLongTerm(Append(log, message)))
    IN  [short_term |-> Put(mem.short_term, id,
                            DequeAppend(window, message)),
         long_term |-> logs,
         storage |-> save_long_term(logs, mem.storage, outcome)]

\* CONFIDENCE_THRESHOLD: the default 0.2, and one above every confidence
\* an empty result list can give.
Thresholds == {20, 60}

QueryInit ==
    /\ gen_variant \in GeneratorFiles
    /\ has_model \in BOOLEAN
    /\ confidence_threshold \in Thresholds
    /\ query_in = [search |-> "none", retrieved |-> <<>>,
                   reranked |-> <<>>, llm |-> NoLlm,
                   conversation |-> "none"]
    /\ response = [answer |-> <<>>, citations |-> <<>>, confidence |-> 0,
                   retrieved_chunks |-> 0]
    /\ query_pc = "ready"

\* The two messages process_query gives to add_message: the query, then
\* the answer of the response, with the metadata of a generated answer.
\* Without the assistant message when the search failed.
messages_added_on_success(query, found, result) ==
    IF found.status # "success"
    THEN << [role |-> "user", content |-> query, metadata |-> "None"] >>
    ELSE << [role |-> "user", content |-> query, metadata |-> "None"],
            [role |-> "assistant", content |-> result.answer,
             metadata |-> "conf"] >>

\* The two messages process_query gives to add_message: the query, then
\* the answer of the response, with the metadata of a generated answer.
messages_added(query, found, result) ==
    << [role |-> "user", content |-> query, metadata |-> "None"],
       [role |-> "assistant", content |-> result.answer,
        metadata |-> IF found.status = "success" THEN "conf" ELSE "None"] >>

\* process_query(query, conversation_id) with what the search and the model
\* do drawn from the given sets: the user message, the search, the
\* re-ranking, the answer, the assistant message.
QueryStep(conv_id, searches, llms, saves) ==
    \E found \in searches, o1, o2 \in saves :
      \E reranked_chunks \in Reorderings(found.chunks) :
        \E llm \in (IF has_model /\ found.status = "success"
                    THEN llms ELSE {NoLlm}) :
          \E result \in {process_query(gen_variant, has_model,
                                       confidence_threshold, found,
                                       reranked_chunks, llm)} :
          \E added \in {messages_added(QueryText, found, result)} :
          \E between \in {MessageAdded([short_term |-> short_term,
                                        long_term |-> long_term,
                                        storage |-> storage],
                                       conv_id, added[1], o1)} :
          \E after \in {IF Len(added) = 1 THEN between
                        ELSE MessageAdded(between, conv_id, added[2], o2)} :
          LET failures == (IF o1 = "ok" THEN 0 ELSE 1)
                              + (IF o2 = "ok" THEN 0 ELSE 1)
          IN  /\ save_failures + failures <= MaxSaveFailures
              /\ save_failures' = save_failures + failures
              /\ short_term' = after.short_term
              /\ long_term' = after.long_term
              /\ storage' = after.storage
              /\ last_op' = [op |-> "add",
                             id |-> conv_id,
                             save |-> o2,
                             trimmed |->
                                 Len(between.long_term[conv_id]) + 1
                                     > max_long_term,
                             inp |-> added[Len(added)]]
              /\ response' = result
              /\ query_in' = [search |-> found.status,
                              retrieved |-> found.chunks,
                              reranked |-> reranked_chunks,
                              llm |-> llm,
                              conversation |-> conv_id]

\* process_query(query): one query, to the default conversation.
Query ==
    /\ query_pc = "ready"
    /\ QueryStep(default_conversation_id, SearchOutcomes, LlmOutcomes,
                 SaveOutcomes)
    /\ query_pc' = "answered"
    /\ UNCHANGED <<gen_variant, has_model, confidence_threshold>>
    /\ UNCHANGED <<chunk_vars, mmr_vars, index_vars, san_vars, conf_vars,
                   cite_vars>>
    /\ UNCHANGED later_vars

QueryNext == Query

QueryStart ==
    /\ QueryInit
    /\ LaterIdle
    /\ MemInit
    /\ ChunkIdle /\ MmrIdle /\ IndexIdle
    /\ SanIdle /\ ConfIdle /\ CiteIdle

SpecQuery == QueryStart /\ [][QueryNext]_vars

(***************************************************************************)
(* Claims about the query pipeline.                                        *)
(***************************************************************************)
\* The call of generate_content raised an error that is not shaped like a
\* rate limit.
HardError ==
    /\ query_in.llm.kind = "error"
    /\ ~Contains(query_in.llm.text, {"429", "quota"})

\* The text t is part of the text s, in one piece.
Embeds(s, t) ==
    \E i \in 0..(Len(s) - Len(t)) : SubSeq(s, i + 1, i + Len(t)) = t

\* C13: when the search returns no chunk, the answer is the fixed "please
\* upload a document" message, the citations are empty and the confidence
\* is 0 or below the threshold.
C13_EmptyCorpusAsksForUpload ==
    (query_pc = "answered" /\ query_in.search = "success"
        /\ query_in.retrieved = <<>>) =>
        /\ response.answer = UploadMessage
        /\ response.citations = <<>>
        /\ (response.confidence = 0
               \/ response.confidence < confidence_threshold)

\* C14: when generate_content fails with an error that is not shaped like
\* a rate limit, the answer embeds the error text and the confidence is 0.
C14_HardErrorZeroConfidence ==
    (query_pc = "answered" /\ HardError) =>
        /\ Embeds(response.answer, query_in.llm.text)
        /\ response.confidence = 0

\* C15: when the search step or the answer-generation step fails, the
\* query still returns a response, with confidence 0.0 and no citation.
C15_FailedStepZeroConfidence ==
    (query_pc = "answered"
        /\ (\/ query_in.search = "error"
            \/ HardError
            \/ query_in.llm.kind = "text_none")) =>
        /\ response.answer # <<>>
        /\ response.confidence = 0
        /\ response.citations = <<>>

\* C17: a final answer that holds a no-content phrase such as "please
\* upload" comes with no citation and a confidence of at most 0.5, be the
\* phrase from the generated answer or from the fixed upload message.
C17_NoContentPhraseGatesCitations ==
    (query_pc = "answered" /\ Contains(response.answer, NoCitationPhrases))
        => /\ response.citations = <<>>
           /\ response.confidence <= 50

\* The model answered "please upload ..." to a query that retrieved
\* chunks: no citation, and the confidence cut to 0.5.
C17_Witness ==
    /\ query_pc = "answered"
    /\ query_in.llm.kind = "text"
    /\ Contains(query_in.llm.text, {"please upload"})
    /\ Contains(response.answer, {"please upload"})
    /\ Len(query_in.retrieved) > 0
    /\ response.citations = <<>>
    /\ response.confidence = 50


(***************************************************************************)
(* Further claims about _sanitize_answer.                                  *)
(***************************************************************************)
\* The canned answer of the file.
Fallback(variant) ==
    IF variant = "rag_system" THEN FallbackRagSystem ELSE FallbackBackend

\* The answer with every match of the file's patterns taken out and the
\* white space collapsed.
Cleaned(variant, answer) ==
    CollapseSpaces(ApplyPatterns(SensitivePatterns(variant), answer, ""))

\* C26: an answer whose sanitized text is empty or shorter than 20
\* characters, redacted or not, comes back as the canned answer.
C26_ShortResultGetsFallback ==
    (san_pc = "done"
        /\ CharCount(Cleaned(san_variant, raw_answer)) < SanitizeMinLen)
        => sanitized = Fallback(san_variant)


(***************************************************************************)
(* Further claims about the chunker.                                       *)
(***************************************************************************)
\* max(1, round(words / 1.3)): words / 1.3 is never half-way between two
\* integers, so rounding is the floor of the quotient plus one half.
RoundedEstimate(s) == Max(1, (WordCount(s) * 20 + 13) \div 26)

\* C25: the token estimate of a text is max(1, round(wordCount / 1.3)),
\* for the text that is split and for each chunk made of it.
C25_TokenEstimateRounds ==
    pc = "done" =>
        /\ estimate_tokens(text) = RoundedEstimate(text)
        /\ \A j \in 1..Len(chunks) :
              estimate_tokens(chunks[j]) = RoundedEstimate(chunks[j])


(***************************************************************************)
(* Further claims about the conversation memory.                           *)
(***************************************************************************)
\* The tier get_context reads for the id: the window when there is one,
\* else the durable log.
TierRead(id) == IF id \in DOMAIN short_term THEN short_term[id] ELSE LogOf(id)

\* C28: for every conversation id and every max_messages >= 0, 0 included,
\* get_context returns at most max_messages messages, the most recent ones
\* of the tier it reads, in append order.
C28_ContextAtMostMaxMessages ==
    \A id \in Convs : \A n \in 0..(max_long_term + 1) :
        /\ Len(get_context(id, n)) <= n
        /\ get_context(id, n) = LastN(TierRead(id), n)


(***************************************************************************)
(* Further claims about the index.                                         *)
(***************************************************************************)
\* C30: after any sequence of clear_collection and add_chunks, those whose
\* re-fit raised included, a fitted index has one row of vectors for each
\* stored chunk, so that every position a search ranks is one of a stored
\* chunk and every stored chunk is ranked.
C30_FittedRowsMatchChunks ==
    /\ is_fitted =>
          /\ Len(chunk_vectors) = Len(index_chunks)
          /\ \A i \in 1..Len(index_chunks) : chunk_vectors[i] = index_chunks[i]
    /\ \A a \in 1..Len(retrieved) :
          retrieved[a].idx \in 1..Len(index_chunks)
    /\ (index_pc = "searched" /\ is_fitted) =>
          \A i \in 1..Len(index_chunks) :
              (ScoreOf(i) > 0 /\ top_k >= Len(index_chunks))
                  => i \in ReturnedIdx

\* A re-fit raised on a first batch of stop words only, a later batch was
\* fitted with it, and a search ranked the later chunk.
C30_Witness ==
    /\ index_pc = "searched"
    /\ is_fitted
    /\ Len(index_chunks) >= 2
    /\ index_chunks[1] = StopWordsText
    /\ Len(chunk_vectors) = Len(index_chunks)
    /\ retrieved # <<>>


(***************************************************************************)
(* Further claims about the MMR re-ranker.                                 *)
(***************************************************************************)
\* The position of passage p in the list l that holds it once.
PositionOf(l, p) == CHOOSE i \in 1..Len(l) : l[i] = p

\* The result list is of three different passages: a and b near-duplicates
\* of each other, c dissimilar to both.
DiverseThird(a, b, c) ==
    /\ Len(retrieved_chunks) = 3
    /\ {retrieved_chunks[i] : i \in 1..3} = {a, b, c}
    /\ a # b /\ a # c /\ b # c
    /\ chunk_similarities[{a, b}] = 2
    /\ chunk_similarities[{a, c}] = 0
    /\ chunk_similarities[{b, c}] = 0

\* C23: with lambda below 1, once one of two near-duplicate passages is
\* selected, a third passage dissimilar to it is ranked above the other
\* near-duplicate, whatever the relevance scores of the three: the
\* dissimilar passage is never the last of the three.
C23_DiverseAboveNearDuplicate ==
    (mmr_pc = "done" /\ lambda_param < 2) =>
        \A a, b, c \in Passages :
            DiverseThird(a, b, c) => PositionOf(reranked, c) < 3

\* The position, in the order of non-increasing relevance with equal
\* relevances in input order, of the entry at position i of the input.
RelevanceRank(R, scores, i) ==
    Cardinality({j \in 1..Len(R) :
        \/ Relevance(R, scores, j) > Relevance(R, scores, i)
        \/ Relevance(R, scores, j) = Relevance(R, scores, i) /\ j < i}) + 1

\* The input in the order of non-increasing relevance, equal relevances in
\* input order.
ByRelevance(R, scores) ==
    [k \in 1..Len(R) |->
        R[CHOOSE i \in 1..Len(R) : RelevanceRank(R, scores, i) = k]]

\* C24: with lambda = 1 the results come back in the order of
\* non-increasing query relevance, whatever the similarities between the
\* passages, equal relevances staying in input order.
C24_LambdaOneIsRelevanceOrder ==
    (mmr_pc = "done" /\ lambda_param = 2) =>
        reranked = ByRelevance(retrieved_chunks, query_scores)

\* With lambda = 1, three different passages, the last two more relevant
\* than the first and equally so, and each pair of passages similar: the
\* two come first, in input order.
C24_Witness ==
    /\ mmr_pc = "done"
    /\ lambda_param = 2
    /\ Len(retrieved_chunks) = 3
    /\ Cardinality({retrieved_chunks[i] : i \in 1..3}) = 3
    /\ query_scores[retrieved_chunks[2]] = query_scores[retrieved_chunks[3]]
    /\ query_scores[retrieved_chunks[1]] < query_scores[retrieved_chunks[2]]
    /\ \A pair \in PassagePairs : chunk_similarities[pair] > 0
    /\ reranked = <<retrieved_chunks[2], retrieved_chunks[3],
                    retrieved_chunks[1]>>


(***************************************************************************)
(* ingest_document (ingest.py) and ingest_and_store (agent.py)             *)
(***************************************************************************)
\* The names documents are uploaded under.
DocumentNames == {"d1", "d2"}

\* f"{document_name}_{idx}": the name, an underscore and the decimal digits
\* of idx.  The digits after the last underscore give idx back and what is
\* before it the name, so two ids are equal exactly when both parts are.
ChunkId(document_name, idx) == <<document_name, idx>>

\* ingest_document: one DocumentChunk for each text chunk_text returned,
\* numbered from 0.
ingest_document(document_name, text_chunks) ==
    [i \in 1..Len(text_chunks) |->
        [text |-> text_chunks[i],
         chunk_id |-> ChunkId(document_name, i - 1)]]

\* The texts of the chunks of an uploaded document: of stop words only,
\* or with terms.
IngestTexts == {StopWordsText, "p1"}

IngestBatches == UNION {[1..n -> IngestTexts] : n \in 0..MaxStored}

\* What tool_ingest_documents met: extract_text_from_pdf raised, or the
\* texts chunk_text made of the document.
IngestOutcomes ==
    {[status |-> "error", text_chunks |-> <<>>]}
        \cup {[status |-> "success", text_chunks |-> b] :
                  b \in IngestBatches}

\* The similarities of a query that is as similar to one text with terms
\* as to another.
EvenScores == {s \in QueryScores : s["p1"] = s["p2"]}

\* The fields of the retriever.
CurrentIndex ==
    [chunks |-> index_chunks, ids |-> index_ids,
     vectors |-> chunk_vectors, fitted |-> is_fitted]

\* The fields after clear_collection().
ClearedIndex ==
    [chunks |-> <<>>, ids |-> <<>>, vectors |-> <<>>, fitted |-> FALSE]

\* tool_embed_chunks(chunks) on the index ix: add_chunks, an exception of
\* the fit caught and reported.
tool_embed_chunks(ix, document_chunks) ==
    LET n == Len(document_chunks)
        texts == ix.chunks \o [i \in 1..n |-> document_chunks[i].text]
        ids == ix.ids \o [i \in 1..n |-> document_chunks[i].chunk_id]
    IN  IF document_chunks = <<>>
        THEN [index |-> ix, status |-> "success"]
        ELSE IF HasVocabulary(texts)
        THEN [index |-> [chunks |-> texts, ids |-> ids,
                         vectors |-> texts, fitted |-> TRUE],
              status |-> "success"]
        ELSE [index |-> [chunks |-> texts, ids |-> ids,
                         vectors |-> ix.vectors, fitted |-> ix.fitted],
              status |-> "error"]

\* ingest_and_store that clears the index once the document was chunked.
ingest_and_store_clear_late(document_name, clear_existing, outcome) ==
    IF outcome.status # "success"
    THEN [index |-> CurrentIndex, status |-> "error"]
    ELSE tool_embed_chunks(
             IF clear_existing THEN ClearedIndex ELSE CurrentIndex,
             ingest_document(document_name, outcome.text_chunks))

\* ingest_and_store(file_path, document_name, clear_existing)
ingest_and_store(document_name, clear_existing, outcome) ==
    LET start == IF clear_existing THEN ClearedIndex ELSE CurrentIndex
    IN  IF outcome.status # "success"
        THEN [index |-> start, status |-> "error"]
        ELSE tool_embed_chunks(
                 start, ingest_document(document_name, outcome.text_chunks))

IngestInit ==
    /\ IndexInit
    /\ index_ids = <<>>
    /\ ingest_status = "none"
    /\ emptied = FALSE
    /\ lost = 0

\* One upload: ingest_and_store with a document name, the flag and what
\* the extraction gave.  An upload forgets the result of the search before
\* it, so the uploads after a search reach the states the uploads before it
\* reach: an upload is taken from the state the last upload left.
Ingest ==
    /\ ingest_status # "off"
    /\ index_pc = "ready"
    /\ \E document_name \in DocumentNames, clear_existing \in BOOLEAN,
          outcome \in IngestOutcomes :
          LET result == ingest_and_store(document_name, clear_existing,
                                         outcome)
          IN  /\ Len(result.index.chunks) <= MaxStored
              /\ index_chunks' = result.index.chunks
              /\ index_ids' = result.index.ids
              /\ chunk_vectors' = result.index.vectors
              /\ is_fitted' = result.index.fitted
              /\ ingest_status' = result.status
              /\ emptied' = IF result.status = "success" THEN FALSE
                            ELSE IF clear_existing THEN TRUE
                            ELSE emptied
              /\ lost' = IF result.status = "success" THEN 0
                         ELSE IF clear_existing THEN Len(index_chunks)
                         ELSE lost
    /\ search_scores' = <<>>
    /\ top_k' = 0
    /\ retrieved' = <<>>
    /\ index_pc' = "ready"
    /\ UNCHANGED <<mem_vars, chunk_vars, mmr_vars, gen_parts, conv_vars,
                   server_vars>>

\* search(query, top_k) between two uploads.
SearchStored ==
    /\ ingest_status # "off"
    /\ index_pc = "ready"
    /\ \E scores \in EvenScores, k \in 0..MaxStored :
          \E order \in ArgSorts(Similarities(scores)) :
              /\ search_scores' = scores
              /\ top_k' = k
              /\ retrieved' = search(scores, k, order)
    /\ index_pc' = "searched"
    /\ UNCHANGED <<index_chunks, chunk_vectors, is_fitted, ingest_vars>>
    /\ UNCHANGED <<mem_vars, chunk_vars, mmr_vars, gen_parts, conv_vars,
                   server_vars>>

IngestNext == Ingest \/ SearchStored

IngestStart ==
    /\ IngestInit
    /\ MemIdle /\ ChunkIdle /\ MmrIdle /\ GenIdle
    /\ ConvIdle /\ ServerIdle

SpecIngest == IngestStart /\ [][IngestNext]_vars

(***************************************************************************)
(* Claims about ingest_and_store.                                          *)
(***************************************************************************)
\* C21: after any sequence of uploads, with the clear_existing flag on or
\* off and with document names that repeat, no two stored chunks have the
\* same chunk id.
C21_ChunkIdsDistinct ==
    \A i, j \in 1..Len(index_ids) : i # j => index_ids[i] # index_ids[j]

\* C29: an ingest that cleared the index and then failed, in the extraction
\* or in the fit, reports an error and does not bring the chunks back: the
\* index stays unfitted, holds no chunk the vectorizer has a term for, and
\* every search returns the empty list, until an ingest succeeds.
C29_FailedIngestLeavesIndexEmpty ==
    emptied =>
        /\ ~is_fitted
        /\ chunk_vectors = <<>>
        /\ ~HasVocabulary(index_chunks)
        /\ index_pc = "searched" => retrieved = <<>>

\* A failed ingest cleared two chunks or more, and a search made since, of
\* a query similar to the texts and top_k > 0, returned nothing.
C29_Witness ==
    /\ emptied
    /\ lost >= 2
    /\ ingest_status = "error"
    /\ index_pc = "searched"
    /\ top_k > 0
    /\ \A t \in IndexTexts \ {StopWordsText} : search_scores[t] > 0
    /\ retrieved = <<>>


(***************************************************************************)
(* Queries one after another: process_query and the conversation memory.   *)
(***************************************************************************)
\* conversation_id of process_query: None, which stands for the default
\* conversation, or an id of the caller.
ConversationIds == {default_conversation_id, "c1"}

\* The search failed, found nothing, or found one chunk.
FewSearches ==
    {[status |-> "error", chunks |-> <<>>],
     [status |-> "success", chunks |-> <<>>],
     [status |-> "success",
      chunks |-> << [text |-> LongText,
                     metadata |-> [document_name |-> "d1",
                                   page_number |-> 1,
                                   chunk_id |-> "k1"]] >>]}

\* The model answered, raised an error that is no rate limit, or gave a
\* response without a text.
FewLlms ==
    {[kind |-> "text", text |-> Words(6)],
     [kind |-> "error", text |-> Words(2)],
     [kind |-> "text_none", text |-> <<>>]}

\* The writes of the file succeed, or the file cannot be opened.
FewSaves == {"ok", "open_fail"}

ConvInit ==
    /\ gen_variant \in GeneratorFiles
    /\ has_model \in BOOLEAN
    /\ confidence_threshold = 20
    /\ query_in = [search |-> "none", retrieved |-> <<>>,
                   reranked |-> <<>>, llm |-> NoLlm,
                   conversation |-> "none"]
    /\ response = [answer |-> <<>>, citations |-> <<>>, confidence |-> 0,
                   retrieved_chunks |-> 0]
    /\ query_pc = "ready"
    /\ queries = 0

\* One more process_query(query, conversation_id).
Converse ==
    /\ query_pc # "off"
    /\ queries < MaxQueries
    /\ \E conv_id \in ConversationIds :
          QueryStep(conv_id, FewSearches, FewLlms, FewSaves)
    /\ queries' = queries + 1
    /\ query_pc' = "answered"
    /\ UNCHANGED <<gen_variant, has_model, confidence_threshold>>
    /\ UNCHANGED <<chunk_vars, mmr_vars, index_vars, san_vars, conf_vars,
                   cite_vars, ingest_vars, server_vars>>

ConvNext == Converse

ConvStart ==
    /\ ConvInit
    /\ MemInit
    /\ ChunkIdle /\ MmrIdle /\ IndexIdle
    /\ SanIdle /\ ConfIdle /\ CiteIdle
    /\ IngestIdle /\ ServerIdle

SpecConversation == ConvStart /\ [][ConvNext]_vars

(***************************************************************************)
(* Claims about the messages of queries.                                   *)
(***************************************************************************)
\* The roles of consecutive messages of the list differ.
Alternates(log) ==
    \A i \in 1..(Len(log) - 1) : log[i].role # log[i + 1].role

\* C27: every process_query appends two messages to its conversation,
\* whatever its outcome: a user message holding the query, then an
\* assistant message holding the answer returned; nothing else of the
\* log changes but for the oldest messages evicted, no other conversation
\* changes, and the messages of queries to one conversation alternate
\* user, assistant.
C27_QueryAppendsUserThenAssistant ==
    [][queries' = queries + 1 =>
          LET id == query_in'.conversation
              old == IF id \in DOMAIN long_term THEN long_term[id] ELSE <<>>
              new == long_term'[id]
              n == Len(new)
          IN  /\ n >= 2
              /\ new[n - 1].role = "user"
              /\ new[n - 1].content = QueryText
              /\ new[n].role = "assistant"
              /\ new[n].content = response'.answer
              /\ SubSeq(new, 1, n - 2) = LastN(old, max_long_term - 2)
              /\ \A other \in DOMAIN long_term :
                    other # id => long_term'[other] = long_term[other]
              /\ Alternates(new)
              /\ LET window == short_term'[id]
                 IN  /\ window[Len(window)] = new[n]
                     /\ Len(window) >= 2
                            => window[Len(window) - 1] = new[n - 1]
    ]_vars

\* A second query to a conversation met a failed search: the log ends with
\* the query and "Error retrieving documents", after the messages of the
\* first query.
C27_Witness ==
    /\ queries = 2
    /\ query_in.search = "error"
    /\ LET log == long_term[query_in.conversation]
       IN  /\ Len(log) >= 3
           /\ log[Len(log)].role = "assistant"
           /\ log[Len(log)].content = ErrorRetrieving
           /\ log[Len(log) - 1].role = "user"
           /\ response.answer = ErrorRetrieving


(***************************************************************************)
(* The request handlers: main.py.  upload_document and chat are            *)
(* coroutines of one event loop; a coroutine runs until it awaits or       *)
(* returns, and only then does the loop run another.                       *)
(***************************************************************************)
\* The requests in flight.
Requests == {"r1", "r2"}

RequestKinds == {"upload", "chat"}

\* The handler that reached the statement `at` gives the event loop up
\* whatever the statement.
YieldsAlways(at) == TRUE

\* The handler that reached the statement `at` gives the event loop up:
\* at `await file.read()` and at its return.  Nothing else in either
\* handler awaits: ingest_and_store and process_query are plain calls.
Yields(at) == at \in {"reading", "done"}

\* The handler of request r goes on to the statement `at`.
Advance(r, at) ==
    /\ request_pc' = [request_pc EXCEPT ![r] = at]
    /\ running' = IF Yields(at) THEN "none" ELSE r

\* The handler of request r is the one running, at the statement `at`.
At(r, at) == running = r /\ request_pc[r] = at

\* The variables a step of a handler leaves alone besides those of the
\* index and of the memory.
server_rest == <<chunk_vars, mmr_vars, gen_parts, ingest_vars, conv_vars,
                 request_kind>>

search_vars == <<search_scores, top_k, retrieved, index_pc>>

ServerInit ==
    /\ request_kind \in [Requests -> RequestKinds]
    /\ request_pc = [r \in Requests |-> "accepted"]
    /\ running = "none"

\* The event loop runs a handler that is ready: a request just accepted,
\* or one whose await is over.
Resume(r) ==
    /\ running = "none"
    /\ request_pc[r] # "done"
    /\ running' = r
    /\ UNCHANGED <<request_pc, request_kind>>
    /\ UNCHANGED <<mem_vars, chunk_vars, mmr_vars, index_vars, gen_parts,
                   ingest_vars, conv_vars>>

\* upload_document up to `content = await file.read()`.
UploadStart(r) ==
    /\ At(r, "accepted")
    /\ request_kind[r] = "upload"
    /\ Advance(r, "reading")
    /\ UNCHANGED <<mem_vars, index_vars, server_rest>>

\* The temporary file is written and ingest_and_store called, which clears
\* the collection first.
UploadClear(r) ==
    /\ At(r, "reading")
    /\ clear_collection
    /\ Advance(r, "chunking")
    /\ UNCHANGED <<mem_vars, search_vars, server_rest>>

\* tool_ingest_documents: the extraction raises, or gives chunks.
UploadChunk(r) ==
    /\ At(r, "chunking")
    /\ \E extracted \in BOOLEAN :
          Advance(r, IF extracted THEN "fitting" ELSE "done")
    /\ UNCHANGED <<mem_vars, index_vars, server_rest>>

\* tool_embed_chunks: add_chunks of the chunks of the document.
UploadFit(r) ==
    /\ At(r, "fitting")
    /\ \E new \in IngestBatches : add_chunks(new)
    /\ Advance(r, "done")
    /\ UNCHANGED <<mem_vars, search_vars, server_rest>>

\* add_message up to _save_long_term: the message is appended to both
\* tiers.
Appended(r, at, inp, next) ==
    /\ At(r, at)
    /\ LET after == MessageAdded([short_term |-> short_term,
                                  long_term |-> long_term,
                                  storage |-> storage],
                                 default_conversation_id, inp, "ok")
       IN  /\ short_term' = after.short_term
           /\ long_term' = after.long_term
    /\ last_op' = [op |-> "add", id |-> default_conversation_id,
                   save |-> "none", trimmed |-> FALSE, inp |-> inp]
    /\ Advance(r, next)
    /\ UNCHANGED <<storage, save_failures, index_vars, server_rest>>

\* chat up to the first _save_long_term of process_query: the user message
\* is appended.
ChatUserMessage(r) ==
    /\ request_kind[r] = "chat"
    /\ Appended(r, "accepted",
                [role |-> "user", content |-> "query", metadata |-> "None"],
                "user_flush")

\* _save_long_term: open(self.storage_path, 'w') empties the file, or
\* raises and the write is skipped.
FlushOpen(r) ==
    /\ \E at \in {"user", "assistant"}, opened \in BOOLEAN :
          /\ At(r, IF at = "user" THEN "user_flush" ELSE "assistant_flush")
          /\ IF opened
             THEN /\ storage' = [state |-> "corrupt", data |-> EmptyStore]
                  /\ save_failures' = save_failures
                  /\ Advance(r, IF at = "user" THEN "user_writing"
                                ELSE "assistant_writing")
             ELSE /\ save_failures < MaxSaveFailures
                  /\ save_failures' = save_failures + 1
                  /\ storage' = storage
                  /\ Advance(r, IF at = "user" THEN "searching" ELSE "done")
    /\ UNCHANGED <<short_term, long_term, last_op, index_vars, server_rest>>

\* _save_long_term: json.dump(self.long_term, f) into the open file.
FlushWrite(r) ==
    /\ \E at \in {"user", "assistant"} :
          /\ At(r, IF at = "user" THEN "user_writing"
                   ELSE "assistant_writing")
          /\ Advance(r, IF at = "user" THEN "searching" ELSE "done")
    /\ storage' = [state |-> "ok", data |-> long_term]
    /\ UNCHANGED <<short_term, long_term, last_op, save_failures,
                   index_vars, server_rest>>

\* tool_vector_search: the search of the index, for a query similar to
\* every text with terms.
ChatSearch(r) ==
    /\ At(r, "searching")
    /\ \E scores \in {s \in EvenScores : s["p1"] = 2} :
          \E order \in ArgSorts(Similarities(scores)) :
              /\ search_scores' = scores
              /\ top_k' = MaxStored
              /\ retrieved' = search(scores, MaxStored, order)
    /\ index_pc' = "searched"
    /\ Advance(r, "generating")
    /\ UNCHANGED <<index_chunks, chunk_vectors, is_fitted>>
    /\ UNCHANGED <<mem_vars, server_rest>>

\* tool_rerank_context and tool_generate_answer_with_citations: they read
\* the chunks retrieved and write nothing that is shared.
ChatGenerate(r) ==
    /\ At(r, "generating")
    /\ Advance(r, "answering")
    /\ UNCHANGED <<mem_vars, index_vars, server_rest>>

\* The assistant message is appended.
ChatAssistantMessage(r) ==
    Appended(r, "answering",
             [role |-> "assistant", content |-> "answer",
              metadata |-> "conf"],
             "assistant_flush")

ServerNext ==
    \E r \in Requests :
        \/ Resume(r)
        \/ UploadStart(r)
        \/ UploadClear(r)
        \/ UploadChunk(r)
        \/ UploadFit(r)
        \/ ChatUserMessage(r)
        \/ FlushOpen(r)
        \/ FlushWrite(r)
        \/ ChatSearch(r)
        \/ ChatGenerate(r)
        \/ ChatAssistantMessage(r)

ServerStart ==
    /\ ServerInit
    /\ IndexInit
    /\ MemInit
    /\ ChunkIdle /\ MmrIdle /\ GenIdle
    /\ IngestIdle /\ ConvIdle

SpecServer == ServerStart /\ [][ServerNext]_vars

(***************************************************************************)
(* Claims about concurrent requests.                                       *)
(***************************************************************************)
\* The ingest of request r has cleared the index and not yet fitted it
\* again.
MidIngest(r) == request_pc[r] \in {"chunking", "fitting"}

\* The file of the memory store is open for writing in request r.
MidFlush(r) == request_pc[r] \in {"user_writing", "assistant_writing"}

\* C22: with upload and chat requests in flight together, no search reads
\* the index while an ingest is between clearing it and fitting it again,
\* no two ingests are there together, and no two writes of the memory
\* store to its file overlap.
C22_OneWriterAtATime ==
    \A r, o \in Requests :
        r # o =>
            /\ ~(At(r, "searching") /\ MidIngest(o))
            /\ ~(MidIngest(r) /\ MidIngest(o))
            /\ ~(MidFlush(r) /\ MidFlush(o))

\* An upload is between the clear and the fit while a chat request waits
\* for the event loop, its user message not yet stored.
C22_Witness ==
    \E r, o \in Requests :
        /\ request_kind[r] = "upload"
        /\ request_kind[o] = "chat"
        /\ At(r, "fitting")
        /\ request_pc[o] = "accepted"

====
